---- MODULE Spec2Model ----
(***************************************************************************)
(* Checkout / inventory-commit engine of the point-of-sale application:    *)
(* the sales screen (SalesPage.tsx), the notification provider with its    *)
(* cancellation window (NotificationContext in providers.tsx), the         *)
(* notification bar and the inventory form that restocks raw materials.    *)
(*                                                                         *)
(* Numbers.  The program computes with JavaScript doubles.  Every number   *)
(* of the model is the double multiplied by one thousand, held as an       *)
(* integer ("thousandths"): 0.5 kg is 500, 200 g is 200000, 3 pieces are   *)
(* 3000.  Multiplying by the plain number 1000 is x * 1000 and dividing by *)
(* it is x \div 1000; the quantities of the model are chosen so that the   *)
(* division is exact.  Cart quantities, identifiers and times are plain    *)
(* integers.                                                               *)
(***************************************************************************)
EXTENDS Integers, Sequences, FiniteSets, TLC

\* ------------------------------------------------------------------------
\* Bounds of the model
\* ------------------------------------------------------------------------
\* checkouts that pass validation in one behaviour
MaxCheckouts == 1
\* persistence requests that fail in one behaviour
MaxFailures == 1
\* the clock stops advancing at this time (ms)
MaxNow == 45000
\* one step of the clock (ms)
TickMs == 20000
\* bits of the mantissa of a double
MantissaBits == 8

\* ------------------------------------------------------------------------
\* Catalogue: raw materials, finished products and recipes
\* ------------------------------------------------------------------------
Items == {"rice", "milk", "cup"}

Products == {"pastil", "champorado", "water"}

NoProduct == "none"

NULL == "null"

\* products.unit_type of every raw material
UnitType == [i \in Items |->
               CASE i = "rice" -> "weight"
                 [] i = "milk" -> "volume"
                 [] OTHER      -> "quantity"]

\* product_ingredients rows grouped by product (fetchData), in display units;
\* a product without rows gets the empty list (productIngredients[id] || [])
productIngredients ==
    [p \in Products |->
       IF p = "pastil"
       THEN << [item_id |-> "rice", qty |-> 200000],
               [item_id |-> "cup",  qty |-> 1000] >>
       ELSE IF p = "champorado"
       THEN << [item_id |-> "rice", qty |-> 100000],
               [item_id |-> "milk", qty |-> 150000],
               [item_id |-> "cup",  qty |-> 1000] >>
       ELSE << >>]

\* finished_products.selling_price
SellingPrice == [p \in Products |-> IF p = "pastil" THEN 60000 ELSE 50000]

\* the products table as the first fetch finds it (storage units)
InitialInventory ==
    [i \in Items |->
       CASE i = "rice" -> [qty |-> 500,  cost |-> 50]
         [] i = "milk" -> [qty |-> 300,  cost |-> 80]
         [] OTHER      -> [qty |-> 1000, cost |-> 2000]]

\* values the cashier can select or type on the sales screen
PaymentMethodNames == {"Cash"}
CustomerTypeNames  == {"Regular"}
DineInTakeoutModes == {"dine_in"}
PaymentInputs      == {200000}

\* the numbers typed into the quantity modal
QuantityInputs == {0, 1, 2}

\* what the inventory form submits on an edit: stock in display units
RestockDisplayQty == [i \in Items |-> IF i = "rice" THEN {100000} ELSE {}]

RestockTotalCost == {10000}

\* ------------------------------------------------------------------------
\* Arithmetic helpers
\* ------------------------------------------------------------------------
Max(a, b) == IF a >= b THEN a ELSE b

\* product and quotient of two doubles held in thousandths
Mul(a, b) == (a * b) \div 1000

Div(a, b) == (a * 1000) \div b

\* ------------------------------------------------------------------------
\* Unit conversion
\* ------------------------------------------------------------------------
\* SalesPage getInventoryInIngredientUnit: stock in the unit of the recipes
getInventoryInIngredientUnit(item) ==
    IF item.unit_type = "weight" THEN item.qty * 1000
    ELSE IF item.unit_type = "volume" THEN item.qty * 1000
    ELSE item.qty

\* InventoryPage getStorageQuantity: display units to storage units
getStorageQuantity(displayQty, unitType) ==
    IF unitType = "weight" THEN displayQty \div 1000
    ELSE IF unitType = "volume" THEN displayQty \div 1000
    ELSE displayQty

\* handleCheckout, "Convert deduction to storage unit"
deductionInStorageUnit(deduction, unitType) ==
    IF unitType = "weight" THEN deduction \div 1000
    ELSE IF unitType = "volume" THEN deduction \div 1000
    ELSE deduction

\* newQty without the clamp
newQtyUnclamped(qty, deduction) == qty - deduction

\* handleCheckout: const newQty = Math.max(0, item.qty - deductionInStorageUnit)
newQty(qty, deduction) == Max(0, qty - deduction)

\* ------------------------------------------------------------------------
\* State
\* ------------------------------------------------------------------------
VARIABLES
    \* the database
    inv,                    \* table products: raw material -> [qty, cost]
    sales,                  \* table sales: the set of Sale rows
    nextSaleId,             \* identity the database gives the next Sale row
    \* the wall clock, Date.now()
    now,
    \* SalesPage component state
    loading,
    fetchPending,           \* a fetchData() call has not delivered yet
    inventoryItems,         \* rows of products as last fetched
    cart,
    selectedPaymentMethod,
    selectedCustomerType,
    selectedDineInTakeout,
    customerPayment,
    isCheckingOut,
    selectedProduct,
    editingCartItem,
    modalQuantity,
    \* the running handleCheckout call
    pc,                     \* "idle", "number", "insert" or "deduct"
    co,                     \* its closure and local variables
    nextTransactionId,      \* stands for crypto.randomUUID()
    checkoutResult,         \* how the last handleCheckout call ended
    \* NotificationProvider and NotificationBar state
    recentSales,
    timers,                 \* outstanding setTimeout callbacks of addRecentSale
    showCancelModal,        \* id of the sale the cancel modal asks about; 0 stands for null
    cpc,                    \* the running cancelSale call: "idle", "mark", "restore", "fallback"
    cn,                     \* its local variables
    cancelResult,           \* what the last cancelSale call returned
    \* a second session (another browser) running handleCheckout
    peer,                   \* its position and the closure and locals of its call
    \* InventoryPage component state
    inventoryPage,          \* items, editingItem, formData, isSubmitting
    cancel2,                \* a second cancelSale call started while one is running
    \* the environment
    failures                \* persistence requests that have failed so far

dbVars     == << inv, sales, nextSaleId >>

cartVars   == << cart, selectedProduct, editingCartItem, modalQuantity >>

selectVars == << selectedPaymentMethod, selectedCustomerType,
                 selectedDineInTakeout, customerPayment >>

fetchVars  == << loading, fetchPending, inventoryItems >>

checkoutVars == << isCheckingOut, pc, co, nextTransactionId, checkoutResult >>

notifyVars == << recentSales, timers >>

cancelVars == << showCancelModal, cpc, cn, cancelResult >>

vars == << inv, sales, nextSaleId, now, loading, fetchPending, inventoryItems,
           cart, selectedPaymentMethod, selectedCustomerType,
           selectedDineInTakeout, customerPayment, isCheckingOut,
           selectedProduct, editingCartItem, modalQuantity, pc, co,
           nextTransactionId, checkoutResult, recentSales, timers,
           showCancelModal, cpc, cn, cancelResult, peer, inventoryPage, cancel2,
           failures >>

\* the locals of a handler that is not running
NoCheckout ==
    [cart |-> << >>, inventoryItems |-> << >>, paymentMethod |-> "",
     customerType |-> "", dineInTakeout |-> NULL, paymentAmount |-> 0,
     transactionId |-> 0, transactionNumber |-> [period |-> "", seq |-> 0],
     ingredientDeductions |-> << >>, saleData |-> << >>, todo |-> << >>,
     failed |-> {}]

NoCancel == [saleId |-> 0, product_id |-> NoProduct, qty |-> 0, cancelledAt |-> NULL]

\* a double that is zero, as mantissa and binary exponent
ZeroDouble == [m |-> 0, e |-> 0]

\* the inventory page before it is opened: no rows fetched, the form closed
\* (resetForm, editingItem null)
NoPage ==
    [items        |-> << >>,
     editingItem  |-> NoProduct,
     formData     |-> [unit_type |-> "quantity", qty |-> ZeroDouble],
     isSubmitting |-> FALSE]

\* the second session before its checkout
NoPeer == [pc |-> "idle", co |-> NoCheckout]

\* no second cancelSale call is running and none has returned
NoSecond == [pc |-> "idle", cn |-> NoCancel, result |-> "none"]

\* ------------------------------------------------------------------------
\* Reading the products table
\* ------------------------------------------------------------------------
\* .order('name')
ItemOrder == << "cup", "milk", "rice" >>

\* supabase.from('products').select('*').order('name')
SelectProducts(table) ==
    [k \in 1..Len(ItemOrder) |->
        [id        |-> ItemOrder[k],
         qty       |-> table[ItemOrder[k]].qty,
         cost      |-> table[ItemOrder[k]].cost,
         unit_type |-> UnitType[ItemOrder[k]]]]

NoItem == [id |-> NULL, qty |-> 0, cost |-> 0, unit_type |-> NULL]

\* inventoryItems.find(i => i.id === id); NoItem stands for undefined
FindItem(rows, id) ==
    LET found == SelectSeq(rows, LAMBDA r : r.id = id)
    IN  IF found = << >> THEN NoItem ELSE Head(found)

\* a persistence request returns: it succeeded, or it is one of the at most
\* MaxFailures requests that fail
RequestOutcome(ok) ==
    /\ ok \/ failures < MaxFailures
    /\ failures' = IF ok THEN failures ELSE failures + 1

Init ==
    /\ inv = InitialInventory
    /\ sales = {}
    /\ nextSaleId = 1
    /\ now = 0
    /\ loading = TRUE
    /\ fetchPending = TRUE
    /\ inventoryItems = << >>
    /\ cart = << >>
    /\ selectedPaymentMethod = ""
    /\ selectedCustomerType = ""
    /\ selectedDineInTakeout = NULL
    /\ customerPayment = 0
    /\ isCheckingOut = FALSE
    /\ selectedProduct = NoProduct
    /\ editingCartItem = NoProduct
    /\ modalQuantity = 1
    /\ pc = "idle"
    /\ co = NoCheckout
    /\ nextTransactionId = 1
    /\ checkoutResult = "none"
    /\ recentSales = << >>
    /\ timers = {}
    /\ showCancelModal = 0
    /\ cpc = "idle"
    /\ cn = NoCancel
    /\ cancelResult = "none"
    /\ peer = NoPeer
    /\ inventoryPage = NoPage
    /\ cancel2 = NoSecond
    /\ failures = 0

\* fetchData: the reads deliver; the component stores the rows
FetchData ==
    /\ UNCHANGED << failures, peer, inventoryPage, cancel2 >>
    /\ fetchPending
    /\ inventoryItems' = SelectProducts(inv)
    /\ loading' = FALSE
    /\ fetchPending' = FALSE
    /\ UNCHANGED << dbVars, now, cartVars, selectVars, checkoutVars,
                    notifyVars, cancelVars >>

\* isProductOutOfStock that also counts a stock equal to the line quantity as
\* short
isProductOutOfStockAtMost(product, rows) ==
    LET ingredients == productIngredients[product]
    IN  IF Len(ingredients) = 0 THEN TRUE
        ELSE \E k \in 1..Len(ingredients) :
                LET item == FindItem(rows, ingredients[k].item_id)
                IN  IF item = NoItem THEN TRUE
                    ELSE getInventoryInIngredientUnit(item) <= ingredients[k].qty

\* ------------------------------------------------------------------------
\* Sales screen: derived values
\* ------------------------------------------------------------------------
\* isProductOutOfStock, over the rows the component holds
isProductOutOfStock(product, rows) ==
    LET ingredients == productIngredients[product]
    IN  IF Len(ingredients) = 0 THEN TRUE
        ELSE \E k \in 1..Len(ingredients) :
                LET item == FindItem(rows, ingredients[k].item_id)
                IN  IF item = NoItem THEN TRUE
                    ELSE getInventoryInIngredientUnit(item) < ingredients[k].qty

\* calculateProductCost taking item.cost per storage unit: each line quantity
\* is converted to kilograms, liters or pieces before it is multiplied
RECURSIVE ReduceCostPerStorageUnit(_, _, _)
ReduceCostPerStorageUnit(ingredients, rows, total) ==
    IF ingredients = << >> THEN total
    ELSE LET item == FindItem(rows, Head(ingredients).item_id)
         IN  ReduceCostPerStorageUnit(Tail(ingredients), rows,
                total + (IF item = NoItem THEN 0
                         ELSE Mul(item.cost,
                                  getStorageQuantity(Head(ingredients).qty,
                                                     item.unit_type))))

calculateProductCostPerStorageUnit(product, rows) ==
    ReduceCostPerStorageUnit(productIngredients[product], rows, 0)

\* calculateProductCost: ingredients.reduce((total, ing) => total + item.cost * ing.qty, 0)
RECURSIVE ReduceCost(_, _, _)
ReduceCost(ingredients, rows, total) ==
    IF ingredients = << >> THEN total
    ELSE LET item == FindItem(rows, Head(ingredients).item_id)
         IN  ReduceCost(Tail(ingredients), rows,
                        total + (IF item = NoItem THEN 0
                                 ELSE Mul(item.cost, Head(ingredients).qty)))

calculateProductCost(product, rows) == ReduceCost(productIngredients[product], rows, 0)

\* cartTotal: cart.reduce((sum, item) => sum + item.quantity * item.product.selling_price, 0)
RECURSIVE cartTotal(_)
cartTotal(c) ==
    IF c = << >> THEN 0
    ELSE Head(c).quantity * SellingPrice[Head(c).product] + cartTotal(Tail(c))

\* canCheckout without the seating mode
canCheckoutNoSeating ==
    /\ Len(cart) > 0
    /\ selectedPaymentMethod # ""
    /\ selectedCustomerType # ""
    /\ customerPayment >= cartTotal(cart)

\* canCheckout
canCheckout ==
    /\ Len(cart) > 0
    /\ selectedPaymentMethod # ""
    /\ selectedCustomerType # ""
    /\ selectedDineInTakeout # NULL
    /\ customerPayment >= cartTotal(cart)

\* cart.find / cart.findIndex by product identity; 0 stands for "not found"
CartIndex(c, product) ==
    IF \E k \in 1..Len(c) : c[k].product = product
    THEN CHOOSE k \in 1..Len(c) :
            /\ c[k].product = product
            /\ \A j \in 1..(k - 1) : c[j].product # product
    ELSE 0

\* the cashier can use the sales screen: the first load is over and no modal
\* covers the screen; as bounds on the cashier, no checkout is running and
\* the checkouts of the behaviour are not used up
ScreenFree ==
    /\ ~loading
    /\ pc = "idle"
    /\ nextTransactionId <= MaxCheckouts
    /\ selectedProduct = NoProduct
    /\ editingCartItem = NoProduct
    /\ showCancelModal = 0

\* ------------------------------------------------------------------------
\* Sales screen: cart and selection handlers
\* ------------------------------------------------------------------------
\* product grid onClick -> handleProductClick
handleProductClick(product) ==
    /\ UNCHANGED << failures, peer, inventoryPage, cancel2 >>
    /\ ScreenFree
    /\ ~isProductOutOfStock(product, inventoryItems)
    /\ IF CartIndex(cart, product) # 0
       THEN /\ editingCartItem' = product
            /\ modalQuantity' = cart[CartIndex(cart, product)].quantity
            /\ UNCHANGED selectedProduct
       ELSE /\ selectedProduct' = product
            /\ modalQuantity' = 1
            /\ UNCHANGED editingCartItem
    /\ UNCHANGED << dbVars, now, fetchVars, cart, selectVars, checkoutVars,
                    notifyVars, cancelVars >>

handleCartItemClick(k) ==
    /\ UNCHANGED << failures, peer, inventoryPage, cancel2 >>
    /\ ScreenFree
    /\ k \in 1..Len(cart)
    /\ editingCartItem' = cart[k].product
    /\ modalQuantity' = cart[k].quantity
    /\ UNCHANGED << dbVars, now, fetchVars, cart, selectedProduct, selectVars,
                    checkoutVars, notifyVars, cancelVars >>

closeModal ==
    /\ UNCHANGED << failures, peer, inventoryPage, cancel2 >>
    /\ selectedProduct # NoProduct \/ editingCartItem # NoProduct
    /\ selectedProduct' = NoProduct
    /\ editingCartItem' = NoProduct
    /\ modalQuantity' = 1
    /\ UNCHANGED << dbVars, now, fetchVars, cart, selectVars, checkoutVars,
                    notifyVars, cancelVars >>

\* the quantity field and its +/- buttons; the empty field parses to 0
handleQuantityChange(value) ==
    /\ UNCHANGED << failures, peer, inventoryPage, cancel2 >>
    /\ selectedProduct # NoProduct \/ editingCartItem # NoProduct
    /\ value \in QuantityInputs
    /\ value # modalQuantity
    /\ modalQuantity' = value
    /\ UNCHANGED << dbVars, now, fetchVars, cart, selectedProduct,
                    editingCartItem, selectVars, checkoutVars, notifyVars,
                    cancelVars >>

\* handleAddToCart with a cart update that appends the edited line instead of
\* replacing it
handleAddToCartAppends ==
    /\ UNCHANGED << failures, peer, inventoryPage, cancel2 >>
    /\ selectedProduct # NoProduct \/ editingCartItem # NoProduct
    /\ IF modalQuantity <= 0
       THEN UNCHANGED cartVars
       ELSE /\ IF editingCartItem # NoProduct
               THEN cart' = Append(cart, [product  |-> editingCartItem,
                                          quantity |-> modalQuantity])
               ELSE IF CartIndex(cart, selectedProduct) # 0
                    THEN cart' = [cart EXCEPT ![CartIndex(cart, selectedProduct)].quantity
                                                  = @ + modalQuantity]
                    ELSE cart' = Append(cart, [product  |-> selectedProduct,
                                               quantity |-> modalQuantity])
            /\ selectedProduct' = NoProduct
            /\ editingCartItem' = NoProduct
            /\ modalQuantity' = 1
    /\ UNCHANGED << dbVars, now, fetchVars, selectVars, checkoutVars,
                    notifyVars, cancelVars >>

handleAddToCart ==
    /\ UNCHANGED << failures, peer, inventoryPage, cancel2 >>
    /\ selectedProduct # NoProduct \/ editingCartItem # NoProduct
    /\ IF modalQuantity <= 0
       THEN UNCHANGED cartVars
       ELSE /\ IF editingCartItem # NoProduct
               THEN cart' = [k \in 1..Len(cart) |->
                               IF cart[k].product = editingCartItem
                               THEN [cart[k] EXCEPT !.quantity = modalQuantity]
                               ELSE cart[k]]
               ELSE IF CartIndex(cart, selectedProduct) # 0
                    THEN cart' = [cart EXCEPT ![CartIndex(cart, selectedProduct)].quantity
                                                  = @ + modalQuantity]
                    ELSE cart' = Append(cart, [product  |-> selectedProduct,
                                               quantity |-> modalQuantity])
            /\ selectedProduct' = NoProduct
            /\ editingCartItem' = NoProduct
            /\ modalQuantity' = 1
    /\ UNCHANGED << dbVars, now, fetchVars, selectVars, checkoutVars,
                    notifyVars, cancelVars >>

handleRemoveFromCart ==
    /\ UNCHANGED << failures, peer, inventoryPage, cancel2 >>
    /\ editingCartItem # NoProduct
    /\ cart' = SelectSeq(cart, LAMBDA item : item.product # editingCartItem)
    /\ selectedProduct' = NoProduct
    /\ editingCartItem' = NoProduct
    /\ modalQuantity' = 1
    /\ UNCHANGED << dbVars, now, fetchVars, selectVars, checkoutVars,
                    notifyVars, cancelVars >>

\* the "Clear" button of a non-empty cart
clearCart ==
    /\ UNCHANGED << failures, peer, inventoryPage, cancel2 >>
    /\ ScreenFree
    /\ Len(cart) > 0
    /\ cart' = << >>
    /\ selectedPaymentMethod' = ""
    /\ selectedCustomerType' = ""
    /\ selectedDineInTakeout' = NULL
    /\ customerPayment' = 0
    /\ UNCHANGED << dbVars, now, fetchVars, selectedProduct, editingCartItem,
                    modalQuantity, checkoutVars, notifyVars, cancelVars >>

setSelectedPaymentMethod(name) ==
    /\ UNCHANGED << failures, peer, inventoryPage, cancel2 >>
    /\ ScreenFree
    /\ name \in PaymentMethodNames
    /\ selectedPaymentMethod # name
    /\ selectedPaymentMethod' = name
    /\ UNCHANGED << dbVars, now, fetchVars, cartVars, selectedCustomerType,
                    selectedDineInTakeout, customerPayment, checkoutVars,
                    notifyVars, cancelVars >>

setSelectedCustomerType(name) ==
    /\ UNCHANGED << failures, peer, inventoryPage, cancel2 >>
    /\ ScreenFree
    /\ name \in CustomerTypeNames
    /\ selectedCustomerType # name
    /\ selectedCustomerType' = name
    /\ UNCHANGED << dbVars, now, fetchVars, cartVars, selectedPaymentMethod,
                    selectedDineInTakeout, customerPayment, checkoutVars,
                    notifyVars, cancelVars >>

setSelectedDineInTakeout(mode) ==
    /\ UNCHANGED << failures, peer, inventoryPage, cancel2 >>
    /\ ScreenFree
    /\ mode \in DineInTakeoutModes
    /\ selectedDineInTakeout # mode
    /\ selectedDineInTakeout' = mode
    /\ UNCHANGED << dbVars, now, fetchVars, cartVars, selectedPaymentMethod,
                    selectedCustomerType, customerPayment, checkoutVars,
                    notifyVars, cancelVars >>

\* the payment field; the empty field parses to 0
handlePaymentChange(value) ==
    /\ UNCHANGED << failures, peer, inventoryPage, cancel2 >>
    /\ ScreenFree
    /\ value \in PaymentInputs \cup {0}
    /\ customerPayment # value
    /\ customerPayment' = value
    /\ UNCHANGED << dbVars, now, fetchVars, cartVars, selectedPaymentMethod,
                    selectedCustomerType, selectedDineInTakeout, checkoutVars,
                    notifyVars, cancelVars >>

\* ------------------------------------------------------------------------
\* Checkout
\* ------------------------------------------------------------------------
\* const CANCEL_WINDOW_MS = 30000
CANCEL_WINDOW_MS == 30000

\* format(now, 'yy-MM'); the clock of the model stays inside one month
yearMonth(t) == "24-05"

Sequences_(rows, period) ==
    { r.transaction_number.seq :
        r \in { x \in rows : x.transaction_number.period = period } }

\* nextNum.toString(): the decimal digits of a number
RECURSIVE Digits(_)
Digits(n) == IF n < 10 THEN << n >> ELSE Append(Digits(n \div 10), n % 10)

\* .padStart(len, '0')
RECURSIVE padStart(_, _)
padStart(text, len) == IF Len(text) >= len THEN text ELSE padStart(<< 0 >> \o text, len)

\* the part of a transaction number after the period: the sequence as text
sequenceText(seq) == padStart(Digits(seq), 5)

\* parseInt of a text of digits
RECURSIVE parseInt(_)
parseInt(text) ==
    IF text = << >> THEN 0
    ELSE 10 * parseInt(SubSeq(text, 1, Len(text) - 1)) + text[Len(text)]

\* the order of .order('transaction_number'): texts compare character by
\* character, and a text is greater than each of its proper prefixes
RECURSIVE TextLess(_, _)
TextLess(a, b) ==
    IF a = << >> THEN b # << >>
    ELSE IF b = << >> THEN FALSE
    ELSE IF a[1] # b[1] THEN a[1] < b[1]
    ELSE TextLess(Tail(a), Tail(b))

\* generateTransactionNumber: the rows of the month (like 'yy-MM-%'), the
\* last of them in the order of the text (order desc, limit 1), its third
\* part parsed, plus one; 1 when the month has no row or the read fails. A
\* number yy-MM-XXXXX is held as its period and the value of its sequence.
generateTransactionNumber(rows, period, readOk) ==
    LET seqs == Sequences_(rows, period)
        last == CHOOSE m \in seqs :
                   \A n \in seqs : ~TextLess(sequenceText(m), sequenceText(n))
    IN  [period |-> period,
         seq    |-> IF readOk /\ seqs # {}
                    THEN parseInt(sequenceText(last)) + 1
                    ELSE 1]

\* AddDeduction that overwrites the entry of an item instead of adding to it
AddDeductionOverwrite(deductions, id, amount) ==
    IF \E k \in 1..Len(deductions) : deductions[k].item_id = id
    THEN [k \in 1..Len(deductions) |->
            IF deductions[k].item_id = id
            THEN [deductions[k] EXCEPT !.deduction = amount]
            ELSE deductions[k]]
    ELSE Append(deductions, [item_id |-> id, deduction |-> amount])

\* ingredientDeductions[id] = (ingredientDeductions[id] || 0) + amount;
\* the object keeps its keys in the order of their first assignment
AddDeduction(deductions, id, amount) ==
    IF \E k \in 1..Len(deductions) : deductions[k].item_id = id
    THEN [k \in 1..Len(deductions) |->
            IF deductions[k].item_id = id
            THEN [deductions[k] EXCEPT !.deduction = @ + amount]
            ELSE deductions[k]]
    ELSE Append(deductions, [item_id |-> id, deduction |-> amount])

\* for (const ing of ingredients) ...
RECURSIVE DeductIngredients(_, _, _)
DeductIngredients(ingredients, quantity, deductions) ==
    IF ingredients = << >> THEN deductions
    ELSE DeductIngredients(Tail(ingredients), quantity,
             AddDeduction(deductions, Head(ingredients).item_id,
                          Head(ingredients).qty * quantity))

\* for (const item of cart) ...
RECURSIVE DeductCart(_, _)
DeductCart(c, deductions) ==
    IF c = << >> THEN deductions
    ELSE DeductCart(Tail(c),
             DeductIngredients(productIngredients[Head(c).product],
                               Head(c).quantity, deductions))

ingredientDeductions(c) == DeductCart(c, << >>)

\* saleRecords = cart.map(...), then the rows as the insert returns them
saleRecords(c) ==
    [k \in 1..Len(c.cart) |->
        [id                 |-> nextSaleId + k - 1,
         transaction_id     |-> c.transactionId,
         transaction_number |-> c.transactionNumber,
         product_id         |-> c.cart[k].product,
         qty                |-> c.cart[k].quantity,
         cost               |-> calculateProductCost(c.cart[k].product, c.inventoryItems),
         selling_price      |-> SellingPrice[c.cart[k].product],
         total              |-> c.cart[k].quantity * SellingPrice[c.cart[k].product],
         payment_method     |-> c.paymentMethod,
         customer_type      |-> c.customerType,
         dine_in_takeout    |-> c.dineInTakeout,
         customer_payment   |-> c.paymentAmount,
         cancelled          |-> FALSE,
         cancelled_at       |-> NULL]]

\* the update of the deduction loop for one entry: the new products table
\* when the update succeeds
DeductedInventory(table, rows, entry) ==
    LET item == FindItem(rows, entry.item_id)
    IN  IF item = NoItem THEN table
        ELSE [table EXCEPT ![entry.item_id].qty =
                 newQty(item.qty, deductionInStorageUnit(entry.deduction, item.unit_type))]

\* addRecentSale keeping the entries it finds: setRecentSales((prev) => [...prev, entry])
addRecentSaleAppend(sale) ==
    /\ recentSales' = Append(recentSales,
                             [sale |-> sale, expiresAt |-> now + CANCEL_WINDOW_MS])
    /\ timers' = timers \cup { [saleId |-> sale.id, due |-> now + CANCEL_WINDOW_MS] }

\* addRecentSale keeping a pending entry it finds: the slot goes to the first sale
addRecentSaleKeepFirst(sale) ==
    /\ recentSales' = IF recentSales = << >>
                      THEN << [sale |-> sale, expiresAt |-> now + CANCEL_WINDOW_MS] >>
                      ELSE recentSales
    /\ timers' = timers \cup { [saleId |-> sale.id, due |-> now + CANCEL_WINDOW_MS] }

\* addRecentSale: one entry replaces the list; a timer is set
addRecentSale(sale) ==
    /\ recentSales' = << [sale |-> sale, expiresAt |-> now + CANCEL_WINDOW_MS] >>
    /\ timers' = timers \cup { [saleId |-> sale.id, due |-> now + CANCEL_WINDOW_MS] }

\* the end of handleCheckout after the last await: addRecentSale(saleData[0]),
\* clearCart(), fetchData(), finally setIsCheckingOut(false)
CheckoutTail(saleData) ==
    /\ IF Len(saleData) > 0
       THEN addRecentSale(saleData[1])
       ELSE UNCHANGED notifyVars
    /\ cart' = << >>
    /\ selectedPaymentMethod' = ""
    /\ selectedCustomerType' = ""
    /\ selectedDineInTakeout' = NULL
    /\ customerPayment' = 0
    /\ fetchPending' = TRUE
    /\ isCheckingOut' = FALSE
    /\ pc' = "idle"
    /\ co' = NoCheckout
    /\ checkoutResult' = "completed"

\* the Checkout button: validation, then the read of the transaction number
\* is issued
handleCheckout ==
    /\ UNCHANGED << failures, peer, inventoryPage, cancel2 >>
    /\ ScreenFree
    /\ pc = "idle"
    /\ IF ~canCheckout
       THEN UNCHANGED checkoutVars
       ELSE /\ nextTransactionId <= MaxCheckouts
            /\ isCheckingOut' = TRUE
            /\ pc' = "number"
            /\ co' = [NoCheckout EXCEPT
                        !.cart = cart,
                        !.inventoryItems = inventoryItems,
                        !.paymentMethod = selectedPaymentMethod,
                        !.customerType = selectedCustomerType,
                        !.dineInTakeout = selectedDineInTakeout,
                        !.paymentAmount = customerPayment,
                        !.transactionId = nextTransactionId]
            /\ nextTransactionId' = nextTransactionId + 1
            /\ checkoutResult' = "none"
    /\ UNCHANGED << dbVars, now, fetchVars, cartVars, selectVars, notifyVars,
                    cancelVars >>

\* CheckoutNumber that starts the deduction loop before the Sale rows are
\* inserted
CheckoutNumberDeductFirst(readOk) ==
    /\ RequestOutcome(readOk)
    /\ UNCHANGED << peer, inventoryPage, cancel2 >>
    /\ pc = "number"
    /\ co' = [co EXCEPT
                !.transactionNumber = generateTransactionNumber(sales, yearMonth(now), readOk),
                !.ingredientDeductions = ingredientDeductions(co.cart),
                !.todo = ingredientDeductions(co.cart)]
    /\ pc' = "deduct"
    /\ UNCHANGED << dbVars, now, fetchVars, cartVars, selectVars,
                    isCheckingOut, nextTransactionId, checkoutResult,
                    notifyVars, cancelVars >>

\* the read of generateTransactionNumber returns; the deductions and the
\* sale records are computed and the insert is issued
CheckoutNumber(readOk) ==
    /\ RequestOutcome(readOk)
    /\ UNCHANGED << peer, inventoryPage, cancel2 >>
    /\ pc = "number"
    /\ co' = [co EXCEPT
                !.transactionNumber = generateTransactionNumber(sales, yearMonth(now), readOk),
                !.ingredientDeductions = ingredientDeductions(co.cart)]
    /\ pc' = "insert"
    /\ UNCHANGED << dbVars, now, fetchVars, cartVars, selectVars,
                    isCheckingOut, nextTransactionId, checkoutResult,
                    notifyVars, cancelVars >>

\* CheckoutInsert that does not throw when the insert failed
CheckoutInsertNoThrow(insertOk) ==
    /\ RequestOutcome(insertOk)
    /\ UNCHANGED << peer, inventoryPage, cancel2 >>
    /\ pc = "insert"
    /\ LET saleData == IF insertOk THEN saleRecords(co) ELSE << >>
       IN  /\ sales' = sales \cup { saleData[k] : k \in 1..Len(saleData) }
           /\ nextSaleId' = nextSaleId + Len(saleData)
           /\ co' = [co EXCEPT !.saleData = saleData,
                               !.todo = co.ingredientDeductions]
    /\ pc' = "deduct"
    /\ UNCHANGED << inv, fetchVars, cart, selectVars, isCheckingOut,
                    checkoutResult, notifyVars >>
    /\ UNCHANGED << now, selectedProduct, editingCartItem, modalQuantity,
                    nextTransactionId, cancelVars >>

\* the insert of the Sale rows returns
CheckoutInsert(insertOk) ==
    /\ RequestOutcome(insertOk)
    /\ UNCHANGED << peer, inventoryPage, cancel2 >>
    /\ pc = "insert"
    /\ IF ~insertOk
       THEN \* throw saleError -> catch -> finally
            /\ checkoutResult' = "failed"
            /\ isCheckingOut' = FALSE
            /\ pc' = "idle"
            /\ co' = NoCheckout
            /\ UNCHANGED << dbVars, fetchVars, cart, selectVars, notifyVars >>
       ELSE LET saleData == saleRecords(co)
            IN  /\ sales' = sales \cup { saleData[k] : k \in 1..Len(saleData) }
                /\ nextSaleId' = nextSaleId + Len(saleData)
                /\ UNCHANGED inv
                /\ IF co.ingredientDeductions = << >>
                   THEN /\ CheckoutTail(saleData)
                        /\ UNCHANGED << loading, inventoryItems >>
                   ELSE /\ co' = [co EXCEPT !.saleData = saleData,
                                            !.todo = co.ingredientDeductions]
                        /\ pc' = "deduct"
                        /\ UNCHANGED << fetchVars, cart, selectVars,
                                        isCheckingOut, checkoutResult, notifyVars >>
    /\ UNCHANGED << now, selectedProduct, editingCartItem, modalQuantity,
                    nextTransactionId, cancelVars >>

\* CheckoutDeduct that throws when the update failed
CheckoutDeductThrow(updateOk) ==
    /\ RequestOutcome(updateOk)
    /\ UNCHANGED << peer, inventoryPage, cancel2 >>
    /\ pc = "deduct"
    /\ co.todo # << >>
    /\ inv' = IF updateOk
              THEN DeductedInventory(inv, co.inventoryItems, Head(co.todo))
              ELSE inv
    /\ UNCHANGED << sales, nextSaleId >>
    /\ IF ~updateOk
       THEN /\ checkoutResult' = "failed"
            /\ isCheckingOut' = FALSE
            /\ pc' = "idle"
            /\ co' = NoCheckout
            /\ UNCHANGED << fetchVars, cart, selectVars, notifyVars >>
       ELSE IF Tail(co.todo) = << >>
       THEN /\ CheckoutTail(co.saleData)
            /\ UNCHANGED << loading, inventoryItems >>
       ELSE /\ co' = [co EXCEPT !.todo = Tail(co.todo)]
            /\ UNCHANGED << fetchVars, cart, selectVars, isCheckingOut, pc,
                            checkoutResult, notifyVars >>
    /\ UNCHANGED << now, selectedProduct, editingCartItem, modalQuantity,
                    nextTransactionId, cancelVars >>

\* the update of one inventory item returns; the loop goes on to the next
\* entry, or the handler finishes
CheckoutDeduct(updateOk) ==
    /\ RequestOutcome(updateOk)
    /\ UNCHANGED << peer, inventoryPage, cancel2 >>
    /\ pc = "deduct"
    /\ co.todo # << >>
    /\ inv' = IF updateOk
              THEN DeductedInventory(inv, co.inventoryItems, Head(co.todo))
              ELSE inv
    /\ UNCHANGED << sales, nextSaleId >>
    /\ IF Tail(co.todo) = << >>
       THEN /\ CheckoutTail(co.saleData)
            /\ UNCHANGED << loading, inventoryItems >>
       ELSE /\ co' = [co EXCEPT
                        !.todo = Tail(co.todo),
                        !.failed = IF updateOk THEN @
                                   ELSE @ \cup { Head(co.todo).item_id }]
            /\ UNCHANGED << fetchVars, cart, selectVars, isCheckingOut, pc,
                            checkoutResult, notifyVars >>
    /\ UNCHANGED << now, selectedProduct, editingCartItem, modalQuantity,
                    nextTransactionId, cancelVars >>

\* ------------------------------------------------------------------------
\* Inventory form (restock edit of one raw material)
\* ------------------------------------------------------------------------
\* calculatePerUnitCost
calculatePerUnitCost(qty, totalCost) == IF qty <= 0 THEN 0 ELSE Div(totalCost, qty)

\* InventoryPage handleSubmit with editingItem set
handleSubmit(id, qty, totalCost) ==
    /\ UNCHANGED << failures, peer, inventoryPage, cancel2 >>
    /\ id \in Items
    /\ IF qty <= 0
       THEN UNCHANGED inv
       ELSE inv' = [inv EXCEPT ![id] =
                       [qty  |-> getStorageQuantity(qty, UnitType[id]),
                        cost |-> calculatePerUnitCost(qty, totalCost)]]
    /\ inv' # inv
    /\ UNCHANGED << sales, nextSaleId, now, fetchVars, cartVars, selectVars,
                    checkoutVars, notifyVars, cancelVars >>

\* ------------------------------------------------------------------------
\* Cancellation window
\* ------------------------------------------------------------------------
\* prev.filter((rs) => rs.sale.id !== saleId)
WithoutSale(list, saleId) == SelectSeq(list, LAMBDA rs : rs.sale.id # saleId)

\* recentSales.find((rs) => rs.sale.id === saleId), as a sequence of 0 or 1
FindRecentSale(list, saleId) == SelectSeq(list, LAMBDA rs : rs.sale.id = saleId)

\* an update of the sales table by transaction: every row of the cancelled
\* sale's transaction gets the cancellation fields
MarkCancelledTransaction(rows, saleId, at) ==
    { IF \E q \in rows : q.id = saleId /\ q.transaction_id = r.transaction_id
      THEN [r EXCEPT !.cancelled = TRUE, !.cancelled_at = at]
      ELSE r : r \in rows }

\* .from('sales').update({ cancelled: true, cancelled_at }).eq('id', saleId)
MarkCancelled(rows, saleId, at) ==
    { IF r.id = saleId
      THEN [r EXCEPT !.cancelled = TRUE, !.cancelled_at = at]
      ELSE r : r \in rows }

\* what one product's recipe takes of one raw material, in display units
RECURSIVE RecipeQty(_, _)
RecipeQty(ingredients, id) ==
    IF ingredients = << >> THEN 0
    ELSE (IF Head(ingredients).item_id = id THEN Head(ingredients).qty ELSE 0)
         + RecipeQty(Tail(ingredients), id)

\* database function restore_inventory(p_product_id, p_qty): gives back to
\* every raw material what p_qty units of the product took from it
restore_inventory(table, p_product_id, p_qty) ==
    [i \in Items |->
        [table[i] EXCEPT !.qty = @ + getStorageQuantity(
            RecipeQty(productIngredients[p_product_id], i) * p_qty, UnitType[i])]]

\* "Fallback: direct update": the row of products whose id is the sale's
\* product_id, if there is one, gets qty + sale.qty
FallbackRestore(table, product_id, qty) ==
    IF product_id \in DOMAIN table
    THEN [table EXCEPT ![product_id].qty = @ + qty]
    ELSE table

\* NotificationBar: the Cancel button of a notification
handleCancelClick(saleId) ==
    /\ UNCHANGED << failures, peer, inventoryPage, cancel2 >>
    /\ selectedProduct = NoProduct
    /\ editingCartItem = NoProduct
    /\ showCancelModal = 0
    /\ FindRecentSale(recentSales, saleId) # << >>
    /\ showCancelModal' = saleId
    /\ UNCHANGED << dbVars, now, fetchVars, cartVars, selectVars,
                    checkoutVars, notifyVars, cpc, cn, cancelResult >>

\* NotificationBar: "Keep Sale"
keepSale ==
    /\ UNCHANGED << failures, peer, inventoryPage, cancel2 >>
    /\ showCancelModal # 0
    /\ cpc = "idle"
    /\ showCancelModal' = 0
    /\ UNCHANGED << dbVars, now, fetchVars, cartVars, selectVars,
                    checkoutVars, notifyVars, cpc, cn, cancelResult >>

\* handleConfirmCancel whose cancelSale does not look at expiresAt
handleConfirmCancelNoExpiry ==
    /\ UNCHANGED << failures, peer, inventoryPage, cancel2 >>
    /\ showCancelModal # 0
    /\ cpc = "idle"
    /\ LET found == FindRecentSale(recentSales, showCancelModal)
       IN  IF found = << >>
           THEN /\ cancelResult' = "false"
                /\ showCancelModal' = 0
                /\ UNCHANGED << recentSales, cpc, cn >>
           ELSE /\ cpc' = "mark"
                /\ cn' = [saleId      |-> showCancelModal,
                          product_id  |-> Head(found).sale.product_id,
                          qty         |-> Head(found).sale.qty,
                          cancelledAt |-> ToString(now)]
                /\ cancelResult' = "none"
                /\ UNCHANGED << recentSales, showCancelModal >>
    /\ UNCHANGED << dbVars, now, fetchVars, cartVars, selectVars,
                    checkoutVars, timers >>

\* NotificationBar handleConfirmCancel -> cancelSale(showCancelModal), up to
\* its first await; new Date().toISOString() is taken when the update is built
handleConfirmCancel ==
    /\ UNCHANGED << failures, peer, inventoryPage, cancel2 >>
    /\ showCancelModal # 0
    /\ cpc = "idle"
    /\ LET found == FindRecentSale(recentSales, showCancelModal)
       IN  IF found = << >>
           THEN /\ cancelResult' = "false"
                /\ showCancelModal' = 0
                /\ UNCHANGED << recentSales, cpc, cn >>
           ELSE IF now > Head(found).expiresAt
           THEN /\ recentSales' = WithoutSale(recentSales, showCancelModal)
                /\ cancelResult' = "false"
                /\ showCancelModal' = 0
                /\ UNCHANGED << cpc, cn >>
           ELSE /\ cpc' = "mark"
                /\ cn' = [saleId      |-> showCancelModal,
                          product_id  |-> Head(found).sale.product_id,
                          qty         |-> Head(found).sale.qty,
                          cancelledAt |-> ToString(now)]
                /\ cancelResult' = "none"
                /\ UNCHANGED << recentSales, showCancelModal >>
    /\ UNCHANGED << dbVars, now, fetchVars, cartVars, selectVars,
                    checkoutVars, timers >>

\* the end of a cancelSale call that got past its checks, and of
\* handleConfirmCancel
CancelReturn(result) ==
    /\ cancelResult' = result
    /\ showCancelModal' = 0
    /\ cpc' = "idle"
    /\ cn' = NoCancel

\* CancelMark that goes on to the restoration when the update failed
CancelMarkNoThrow(updateOk) ==
    /\ RequestOutcome(updateOk)
    /\ UNCHANGED << peer, inventoryPage, cancel2 >>
    /\ cpc = "mark"
    /\ sales' = IF updateOk
                THEN MarkCancelled(sales, cn.saleId, cn.cancelledAt)
                ELSE sales
    /\ cpc' = "restore"
    /\ UNCHANGED << showCancelModal, cn, cancelResult >>
    /\ UNCHANGED << inv, nextSaleId, now, fetchVars, cartVars, selectVars,
                    checkoutVars, notifyVars >>

\* the update that marks the Sale row cancelled returns
CancelMark(updateOk) ==
    /\ RequestOutcome(updateOk)
    /\ UNCHANGED << peer, inventoryPage, cancel2 >>
    /\ cpc = "mark"
    /\ IF updateOk
       THEN /\ sales' = MarkCancelled(sales, cn.saleId, cn.cancelledAt)
            /\ cpc' = "restore"
            /\ UNCHANGED << showCancelModal, cn, cancelResult >>
       ELSE /\ CancelReturn("false")
            /\ UNCHANGED sales
    /\ UNCHANGED << inv, nextSaleId, now, fetchVars, cartVars, selectVars,
                    checkoutVars, notifyVars >>

\* the call of restore_inventory returns, with or without an error; the
\* error starts the fallback and is not one of the counted failures
CancelRestore(rpcOk) ==
    /\ UNCHANGED << failures, peer, inventoryPage, cancel2 >>
    /\ cpc = "restore"
    /\ IF rpcOk
       THEN /\ inv' = restore_inventory(inv, cn.product_id, cn.qty)
            /\ recentSales' = WithoutSale(recentSales, cn.saleId)
            /\ CancelReturn("true")
       ELSE /\ cpc' = "fallback"
            /\ UNCHANGED << inv, recentSales, showCancelModal, cn, cancelResult >>
    /\ UNCHANGED << sales, nextSaleId, now, fetchVars, cartVars, selectVars,
                    checkoutVars, timers >>

\* the fallback's select and update return
CancelFallback ==
    /\ UNCHANGED << failures, peer, inventoryPage, cancel2 >>
    /\ cpc = "fallback"
    /\ inv' = FallbackRestore(inv, cn.product_id, cn.qty)
    /\ recentSales' = WithoutSale(recentSales, cn.saleId)
    /\ CancelReturn("true")
    /\ UNCHANGED << sales, nextSaleId, now, fetchVars, cartVars, selectVars,
                    checkoutVars, timers >>

\* the setTimeout callback leaving the list as it is
TimerFireKeepsEntry(t) ==
    /\ UNCHANGED << failures, peer, inventoryPage, cancel2 >>
    /\ t \in timers
    /\ now >= t.due
    /\ timers' = timers \ {t}
    /\ UNCHANGED << dbVars, now, fetchVars, cartVars, selectVars,
                    checkoutVars, cancelVars, recentSales >>

\* the setTimeout callback emptying the list: setRecentSales([])
TimerFireClearsList(t) ==
    /\ UNCHANGED << failures, peer, inventoryPage, cancel2 >>
    /\ t \in timers
    /\ now >= t.due
    /\ recentSales' = << >>
    /\ timers' = timers \ {t}
    /\ UNCHANGED << dbVars, now, fetchVars, cartVars, selectVars,
                    checkoutVars, cancelVars >>

\* the setTimeout callback of addRecentSale runs, at its due time or later
TimerFire(t) ==
    /\ UNCHANGED << failures, peer, inventoryPage, cancel2 >>
    /\ t \in timers
    /\ now >= t.due
    /\ recentSales' = WithoutSale(recentSales, t.saleId)
    /\ timers' = timers \ {t}
    /\ UNCHANGED << dbVars, now, fetchVars, cartVars, selectVars,
                    checkoutVars, cancelVars >>

\* time passes; the clock is only read while a cancellation window or its
\* timer is outstanding
Tick ==
    /\ UNCHANGED << failures, peer, inventoryPage, cancel2 >>
    /\ timers # {}
    /\ now + TickMs <= MaxNow
    /\ now' = now + TickMs
    /\ UNCHANGED << dbVars, fetchVars, cartVars, selectVars, checkoutVars,
                    notifyVars, cancelVars >>

\* ------------------------------------------------------------------------
\* Specifications
\* ------------------------------------------------------------------------
\* The sales screen with every cart handler, the checkout and the inventory
\* form; nobody uses the notification bar and the clock stands still.
Next ==
    \/ FetchData
    \/ \E p \in Products : handleProductClick(p)
    \/ \E k \in 1..Len(cart) : handleCartItemClick(k)
    \/ closeModal
    \/ \E v \in QuantityInputs : handleQuantityChange(v)
    \/ handleAddToCart
    \/ handleRemoveFromCart
    \/ clearCart
    \/ \E name \in PaymentMethodNames : setSelectedPaymentMethod(name)
    \/ \E name \in CustomerTypeNames : setSelectedCustomerType(name)
    \/ \E mode \in DineInTakeoutModes : setSelectedDineInTakeout(mode)
    \/ \E v \in PaymentInputs \cup {0} : handlePaymentChange(v)
    \/ handleCheckout
    \/ \E readOk \in BOOLEAN : CheckoutNumber(readOk)
    \/ \E insertOk \in BOOLEAN : CheckoutInsert(insertOk)
    \/ \E updateOk \in BOOLEAN : CheckoutDeduct(updateOk)
    \/ \E id \in Items : \E qty \in RestockDisplayQty[id] :
          \E totalCost \in RestockTotalCost : handleSubmit(id, qty, totalCost)

Spec == Init /\ [][Next]_vars

\* The checkout followed by the cancellation window: the cashier adds
\* products with the quantity the modal proposes, never edits a cart line, and
\* fills the form from top to bottom once the cart has a line; the
\* notification bar, the timers and the clock are live; nobody edits the
\* inventory.
NextCancel ==
    \/ FetchData
    \/ \E p \in Products : handleProductClick(p)
    \/ handleAddToCart
    \/ /\ cart # << >>
       /\ \E name \in PaymentMethodNames : setSelectedPaymentMethod(name)
    \/ /\ selectedPaymentMethod # ""
       /\ \E name \in CustomerTypeNames : setSelectedCustomerType(name)
    \/ /\ selectedCustomerType # ""
       /\ \E mode \in DineInTakeoutModes : setSelectedDineInTakeout(mode)
    \/ /\ selectedDineInTakeout # NULL
       /\ \E v \in PaymentInputs : handlePaymentChange(v)
    \/ handleCheckout
    \/ \E readOk \in BOOLEAN : CheckoutNumber(readOk)
    \/ \E insertOk \in BOOLEAN : CheckoutInsert(insertOk)
    \/ \E updateOk \in BOOLEAN : CheckoutDeduct(updateOk)
    \/ \E saleId \in 1..nextSaleId : handleCancelClick(saleId)
    \/ keepSale
    \/ handleConfirmCancel
    \/ \E updateOk \in BOOLEAN : CancelMark(updateOk)
    \/ \E rpcOk \in BOOLEAN : CancelRestore(rpcOk)
    \/ CancelFallback
    \/ \E t \in timers : TimerFire(t)
    \/ Tick

SpecCancel == Init /\ [][NextCancel]_vars

\* Everything that writes a stored quantity: the checkout, the cancellation
\* inside its window and the restock edit of the inventory form; the cashier
\* works as in NextCancel and the clock stands still.
NextStock ==
    \/ FetchData
    \/ \E p \in Products : handleProductClick(p)
    \/ handleAddToCart
    \/ /\ cart # << >>
       /\ \E name \in PaymentMethodNames : setSelectedPaymentMethod(name)
    \/ /\ selectedPaymentMethod # ""
       /\ \E name \in CustomerTypeNames : setSelectedCustomerType(name)
    \/ /\ selectedCustomerType # ""
       /\ \E mode \in DineInTakeoutModes : setSelectedDineInTakeout(mode)
    \/ /\ selectedDineInTakeout # NULL
       /\ \E v \in PaymentInputs : handlePaymentChange(v)
    \/ handleCheckout
    \/ \E readOk \in BOOLEAN : CheckoutNumber(readOk)
    \/ \E insertOk \in BOOLEAN : CheckoutInsert(insertOk)
    \/ \E updateOk \in BOOLEAN : CheckoutDeduct(updateOk)
    \/ \E id \in Items : \E qty \in RestockDisplayQty[id] :
          \E totalCost \in RestockTotalCost : handleSubmit(id, qty, totalCost)
    \/ \E saleId \in 1..nextSaleId : handleCancelClick(saleId)
    \/ keepSale
    \/ handleConfirmCancel
    \/ \E updateOk \in BOOLEAN : CancelMark(updateOk)
    \/ \E rpcOk \in BOOLEAN : CancelRestore(rpcOk)
    \/ CancelFallback

SpecStock == Init /\ [][NextStock]_vars

\* removeRecentSale of the notification context
removeRecentSale(saleId) ==
    /\ UNCHANGED << failures, peer, inventoryPage, cancel2 >>
    /\ FindRecentSale(recentSales, saleId) # << >>
    /\ recentSales' = WithoutSale(recentSales, saleId)
    /\ UNCHANGED << dbVars, now, fetchVars, cartVars, selectVars,
                    checkoutVars, timers, cancelVars >>

\* The state after construction of a session that has one checkout more than
\* MaxCheckouts: its transaction ids start at 0.
InitWindow ==
    /\ inv = InitialInventory
    /\ sales = {}
    /\ nextSaleId = 1
    /\ now = 0
    /\ loading = TRUE
    /\ fetchPending = TRUE
    /\ inventoryItems = << >>
    /\ cart = << >>
    /\ selectedPaymentMethod = ""
    /\ selectedCustomerType = ""
    /\ selectedDineInTakeout = NULL
    /\ customerPayment = 0
    /\ isCheckingOut = FALSE
    /\ selectedProduct = NoProduct
    /\ editingCartItem = NoProduct
    /\ modalQuantity = 1
    /\ pc = "idle"
    /\ co = NoCheckout
    /\ nextTransactionId = 0
    /\ checkoutResult = "none"
    /\ recentSales = << >>
    /\ timers = {}
    /\ showCancelModal = 0
    /\ cpc = "idle"
    /\ cn = NoCancel
    /\ cancelResult = "none"
    /\ peer = NoPeer
    /\ inventoryPage = NoPage
    /\ cancel2 = NoSecond
    /\ failures = 0

\* Two sales in one session and the cancellation window: the cashier sells
\* one pastil at a time and fills the form from top to bottom; the requests
\* of the checkout succeed; the notification bar, the timers and the clock
\* are live.
NextWindow ==
    \/ FetchData
    \/ handleProductClick("pastil")
    \/ handleAddToCart
    \/ /\ cart # << >>
       /\ \E name \in PaymentMethodNames : setSelectedPaymentMethod(name)
    \/ /\ selectedPaymentMethod # ""
       /\ \E name \in CustomerTypeNames : setSelectedCustomerType(name)
    \/ /\ selectedCustomerType # ""
       /\ \E mode \in DineInTakeoutModes : setSelectedDineInTakeout(mode)
    \/ /\ selectedDineInTakeout # NULL
       /\ \E v \in PaymentInputs : handlePaymentChange(v)
    \/ handleCheckout
    \/ CheckoutNumber(TRUE)
    \/ CheckoutInsert(TRUE)
    \/ CheckoutDeduct(TRUE)
    \/ \E saleId \in 1..nextSaleId : handleCancelClick(saleId)
    \/ keepSale
    \/ handleConfirmCancel
    \/ \E updateOk \in BOOLEAN : CancelMark(updateOk)
    \/ \E rpcOk \in BOOLEAN : CancelRestore(rpcOk)
    \/ CancelFallback
    \/ \E t \in timers : TimerFire(t)
    \/ Tick

SpecWindow == InitWindow /\ [][NextWindow]_vars

\* ReportsPage handleArchive: the rows whose ids are selected are written to a
\* CSV file and deleted; the page's list was fetched earlier, so a selected
\* row may have been cancelled since. With nothing selected the handler returns.
handleArchive(selectedSales, deleteOk) ==
    /\ RequestOutcome(deleteOk)
    /\ UNCHANGED << peer, inventoryPage, cancel2 >>
    /\ selectedSales # {}
    /\ selectedSales \subseteq { r.id : r \in sales }
    /\ sales' = IF deleteOk
                THEN { r \in sales : r.id \notin selectedSales }
                ELSE sales
    /\ UNCHANGED << inv, nextSaleId, now, fetchVars, cartVars, selectVars,
                    checkoutVars, notifyVars, cancelVars >>

\* NextWindow with the reports page open in another tab
NextReports ==
    \/ NextWindow
    \/ \E selectedSales \in SUBSET { r.id : r \in sales }, deleteOk \in BOOLEAN :
          handleArchive(selectedSales, deleteOk)

SpecReports == InitWindow /\ [][NextReports]_vars

\* the transaction numbers of rows written before the session starts
NumberInputs ==
    { [period |-> p, seq |-> n] : p \in {"24-05", "24-04"}, n \in {1, 99999, 100000} }

\* a Sale row of an earlier session
PersistedRow(id, number) ==
    [id                 |-> id,
     transaction_id     |-> 0 - id,
     transaction_number |-> number,
     product_id         |-> "pastil",
     qty                |-> 1,
     cost               |-> 0,
     selling_price      |-> SellingPrice["pastil"],
     total              |-> SellingPrice["pastil"],
     payment_method     |-> "Cash",
     customer_type      |-> "Regular",
     dine_in_takeout    |-> "dine_in",
     customer_payment   |-> SellingPrice["pastil"],
     cancelled          |-> FALSE,
     cancelled_at       |-> NULL]

\* The state after construction over a sales table that holds up to two rows
InitNumber ==
    /\ \E numbers \in UNION { [1..n -> NumberInputs] : n \in 0..2 } :
          /\ sales = { PersistedRow(k, numbers[k]) : k \in DOMAIN numbers }
          /\ nextSaleId = Len(numbers) + 1
    /\ inv = InitialInventory
    /\ now = 0
    /\ loading = TRUE
    /\ fetchPending = TRUE
    /\ inventoryItems = << >>
    /\ cart = << >>
    /\ selectedPaymentMethod = ""
    /\ selectedCustomerType = ""
    /\ selectedDineInTakeout = NULL
    /\ customerPayment = 0
    /\ isCheckingOut = FALSE
    /\ selectedProduct = NoProduct
    /\ editingCartItem = NoProduct
    /\ modalQuantity = 1
    /\ pc = "idle"
    /\ co = NoCheckout
    /\ nextTransactionId = 1
    /\ checkoutResult = "none"
    /\ recentSales = << >>
    /\ timers = {}
    /\ showCancelModal = 0
    /\ cpc = "idle"
    /\ cn = NoCancel
    /\ cancelResult = "none"
    /\ peer = NoPeer
    /\ inventoryPage = NoPage
    /\ cancel2 = NoSecond
    /\ failures = 0

\* The checkout of one pastil over the sales table it finds; the read of
\* generateTransactionNumber can fail
NextNumber ==
    \/ FetchData
    \/ handleProductClick("pastil")
    \/ handleAddToCart
    \/ /\ cart # << >>
       /\ \E name \in PaymentMethodNames : setSelectedPaymentMethod(name)
    \/ /\ selectedPaymentMethod # ""
       /\ \E name \in CustomerTypeNames : setSelectedCustomerType(name)
    \/ /\ selectedCustomerType # ""
       /\ \E mode \in DineInTakeoutModes : setSelectedDineInTakeout(mode)
    \/ /\ selectedDineInTakeout # NULL
       /\ \E v \in PaymentInputs : handlePaymentChange(v)
    \/ handleCheckout
    \/ \E readOk \in BOOLEAN : CheckoutNumber(readOk)
    \/ CheckoutInsert(TRUE)
    \/ CheckoutDeduct(TRUE)

SpecNumber == InitNumber /\ [][NextNumber]_vars

\* ------------------------------------------------------------------------
\* A second session: the same handleCheckout, run in another browser on the
\* same database, for a cart of one pastil
\* ------------------------------------------------------------------------
\* const transactionId = crypto.randomUUID() of the second session
PeerTransactionId == 0 - 1

\* the Checkout button of the second session, up to the read of the
\* transaction number; its inventoryItems are the rows it has just fetched
PeerHandleCheckout ==
    /\ UNCHANGED << failures, inventoryPage, cancel2 >>
    /\ peer.pc = "idle"
    /\ peer' = [pc |-> "number",
                co |-> [NoCheckout EXCEPT
                          !.cart = << [product |-> "pastil", quantity |-> 1] >>,
                          !.inventoryItems = SelectProducts(inv),
                          !.paymentMethod = "Cash",
                          !.customerType = "Regular",
                          !.dineInTakeout = "dine_in",
                          !.paymentAmount = SellingPrice["pastil"],
                          !.transactionId = PeerTransactionId]]
    /\ UNCHANGED << dbVars, now, fetchVars, cartVars, selectVars,
                    checkoutVars, notifyVars, cancelVars >>

\* PeerNumber over a counter that reserves the number a running checkout of
\* the other session holds
PeerNumberReserving(readOk) ==
    /\ RequestOutcome(readOk)
    /\ UNCHANGED << inventoryPage, cancel2 >>
    /\ peer.pc = "number"
    /\ LET held == IF pc = "insert"
                   THEN { [transaction_number |-> co.transactionNumber] }
                   ELSE {}
       IN  peer' = [pc |-> "insert",
                    co |-> [peer.co EXCEPT
                              !.transactionNumber =
                                  generateTransactionNumber(sales \cup held,
                                                            yearMonth(now), readOk),
                              !.ingredientDeductions = ingredientDeductions(peer.co.cart)]]
    /\ UNCHANGED << dbVars, now, fetchVars, cartVars, selectVars,
                    checkoutVars, notifyVars, cancelVars >>

\* the read of generateTransactionNumber of the second session returns
PeerNumber(readOk) ==
    /\ RequestOutcome(readOk)
    /\ UNCHANGED << inventoryPage, cancel2 >>
    /\ peer.pc = "number"
    /\ peer' = [pc |-> "insert",
                co |-> [peer.co EXCEPT
                          !.transactionNumber =
                              generateTransactionNumber(sales, yearMonth(now), readOk),
                          !.ingredientDeductions = ingredientDeductions(peer.co.cart)]]
    /\ UNCHANGED << dbVars, now, fetchVars, cartVars, selectVars,
                    checkoutVars, notifyVars, cancelVars >>

\* the insert of the second session returns
PeerInsert(insertOk) ==
    /\ RequestOutcome(insertOk)
    /\ UNCHANGED << inventoryPage, cancel2 >>
    /\ peer.pc = "insert"
    /\ IF ~insertOk
       THEN /\ peer' = [pc |-> "done", co |-> NoCheckout]
            /\ UNCHANGED dbVars
       ELSE LET saleData == saleRecords(peer.co)
            IN  /\ sales' = sales \cup { saleData[k] : k \in 1..Len(saleData) }
                /\ nextSaleId' = nextSaleId + Len(saleData)
                /\ UNCHANGED inv
                /\ peer' = [pc |-> "deduct",
                            co |-> [peer.co EXCEPT
                                      !.saleData = saleData,
                                      !.todo = peer.co.ingredientDeductions]]
    /\ UNCHANGED << now, fetchVars, cartVars, selectVars, checkoutVars,
                    notifyVars, cancelVars >>

\* one update of the deduction loop of the second session returns; after the
\* last one the handler ends (its notification goes to its own provider)
PeerDeduct(updateOk) ==
    /\ RequestOutcome(updateOk)
    /\ UNCHANGED << inventoryPage, cancel2 >>
    /\ peer.pc = "deduct"
    /\ peer.co.todo # << >>
    /\ inv' = IF updateOk
              THEN DeductedInventory(inv, peer.co.inventoryItems, Head(peer.co.todo))
              ELSE inv
    /\ peer' = IF Tail(peer.co.todo) = << >>
               THEN [pc |-> "done", co |-> NoCheckout]
               ELSE [peer EXCEPT !.co.todo = Tail(peer.co.todo)]
    /\ UNCHANGED << sales, nextSaleId, now, fetchVars, cartVars, selectVars,
                    checkoutVars, notifyVars, cancelVars >>

\* Two sessions: the checkout of one pastil in each, over one database
NextPeer ==
    \/ NextNumber
    \/ PeerHandleCheckout
    \/ \E readOk \in BOOLEAN : PeerNumber(readOk)
    \/ \E insertOk \in BOOLEAN : PeerInsert(insertOk)
    \/ \E updateOk \in BOOLEAN : PeerDeduct(updateOk)

SpecPeer == Init /\ [][NextPeer]_vars

\* the cells of the reports table that can be edited, each with a value its
\* select offers
EditInputs ==
    { << "payment_method", "GCash" >>, << "dine_in_takeout", "takeout" >> }

\* ReportsPage handleUpdateSale: update({ [field]: value }).eq('id', saleId);
\* the page's list was fetched earlier, so the row may have been cancelled since
handleUpdateSale(saleId, field, value, updateOk) ==
    /\ RequestOutcome(updateOk)
    /\ UNCHANGED << peer, inventoryPage, cancel2 >>
    /\ saleId \in { r.id : r \in sales }
    /\ sales' = IF updateOk
                THEN { IF r.id = saleId THEN [r EXCEPT ![field] = value] ELSE r :
                       r \in sales }
                ELSE sales
    /\ UNCHANGED << inv, nextSaleId, now, fetchVars, cartVars, selectVars,
                    checkoutVars, notifyVars, cancelVars >>

\* One checkout with its cancellation window, and the reports page editing
\* the rows in another tab
NextEdit ==
    \/ NextWindow
    \/ \E saleId \in 1..nextSaleId, e \in EditInputs, updateOk \in BOOLEAN :
          handleUpdateSale(saleId, e[1], e[2], updateOk)

SpecEdit == Init /\ [][NextEdit]_vars

\* stock levels of the raw materials, in storage units, below, at and above
\* what the recipes take
StockInputs ==
    [i \in Items |->
       CASE i = "rice" -> {0, 99, 100, 199, 200, 500}
         [] i = "milk" -> {0, 149, 150}
         [] OTHER      -> {0, 1000, 2000}]

\* The state after construction over a products table with any of the stock
\* levels
InitStock ==
    /\ inv \in [Items -> [qty : UNION { StockInputs[i] : i \in Items }, cost : {0}]]
    /\ \A i \in Items : inv[i].qty \in StockInputs[i]
    /\ sales = {}
    /\ nextSaleId = 1
    /\ now = 0
    /\ loading = TRUE
    /\ fetchPending = TRUE
    /\ inventoryItems = << >>
    /\ cart = << >>
    /\ selectedPaymentMethod = ""
    /\ selectedCustomerType = ""
    /\ selectedDineInTakeout = NULL
    /\ customerPayment = 0
    /\ isCheckingOut = FALSE
    /\ selectedProduct = NoProduct
    /\ editingCartItem = NoProduct
    /\ modalQuantity = 1
    /\ pc = "idle"
    /\ co = NoCheckout
    /\ nextTransactionId = 1
    /\ checkoutResult = "none"
    /\ recentSales = << >>
    /\ timers = {}
    /\ showCancelModal = 0
    /\ cpc = "idle"
    /\ cn = NoCancel
    /\ cancelResult = "none"
    /\ peer = NoPeer
    /\ inventoryPage = NoPage
    /\ cancel2 = NoSecond
    /\ failures = 0

\* The product grid: the first fetch, then the cashier opens and closes the
\* quantity modal of the products that can be clicked
NextGrid ==
    \/ FetchData
    \/ \E p \in Products : handleProductClick(p)
    \/ closeModal

SpecGrid == InitStock /\ [][NextGrid]_vars

\* ------------------------------------------------------------------------
\* Quantities as doubles: the inventory page's edit form
\* ------------------------------------------------------------------------
\* A positive double is held as m * 2^e with a mantissa m of MantissaBits
\* bits; a product or quotient is rounded to the nearest such number, ties to
\* the even mantissa.
RECURSIVE Pow2(_)
Pow2(n) == IF n = 0 THEN 1 ELSE 2 * Pow2(n - 1)

RECURSIVE BitLength(_)
BitLength(n) == IF n = 0 THEN 0 ELSE 1 + BitLength(n \div 2)

\* the double nearest to n * 2^e, or to a little more than that when sticky
roundToDouble(n, e, sticky) ==
    IF n = 0 THEN ZeroDouble
    ELSE LET s == BitLength(n) - MantissaBits
         IN  IF s <= 0 THEN [m |-> n * Pow2(0 - s), e |-> e + s]
             ELSE LET q    == n \div Pow2(s)
                      r    == n % Pow2(s)
                      half == Pow2(s - 1)
                      up   == r > half \/ (r = half /\ (sticky \/ q % 2 = 1))
                      q1   == IF up THEN q + 1 ELSE q
                  IN  IF q1 = Pow2(MantissaBits)
                      THEN [m |-> Pow2(MantissaBits - 1), e |-> e + s + 1]
                      ELSE [m |-> q1, e |-> e + s]

\* x * 1000
timesThousand(x) == roundToDouble(x.m * 1000, x.e, FALSE)

\* x / 1000: the quotient is taken with twelve more bits than the mantissa
\* has, the remainder is the sticky bit
overThousand(x) ==
    roundToDouble((x.m * 4096) \div 1000, x.e - 12, (x.m * 4096) % 1000 # 0)

\* InventoryPage getDisplayQuantity on doubles
getDisplayQuantityDouble(qty, unitType) ==
    IF unitType = "weight" THEN timesThousand(qty)
    ELSE IF unitType = "volume" THEN timesThousand(qty)
    ELSE qty

\* getStorageQuantity whose volume branch does not convert
getStorageQuantityDoubleNoVolume(displayQty, unitType) ==
    IF unitType = "weight" THEN overThousand(displayQty)
    ELSE displayQty

\* InventoryPage getStorageQuantity on doubles
getStorageQuantityDouble(displayQty, unitType) ==
    IF unitType = "weight" THEN overThousand(displayQty)
    ELSE IF unitType = "volume" THEN overThousand(displayQty)
    ELSE displayQty

\* stock quantities in storage units: every mantissa, a few binary exponents
DoubleInputs ==
    { [m |-> m, e |-> e] :
        m \in Pow2(MantissaBits - 1)..(Pow2(MantissaBits) - 1),
        e \in (0 - MantissaBits - 1)..(0 - MantissaBits + 1) }

\* The state after construction with the inventory page open on a products
\* table whose quantities are doubles; the costs are 0
InitRound ==
    /\ \E id \in Items, x \in DoubleInputs :
          inv = [i \in Items |->
                    [qty |-> IF i = id THEN x ELSE ZeroDouble, cost |-> 0]]
    /\ inventoryPage = [NoPage EXCEPT !.items = inv]
    /\ cancel2 = NoSecond
    /\ sales = {}
    /\ nextSaleId = 1
    /\ now = 0
    /\ loading = TRUE
    /\ fetchPending = TRUE
    /\ inventoryItems = << >>
    /\ cart = << >>
    /\ selectedPaymentMethod = ""
    /\ selectedCustomerType = ""
    /\ selectedDineInTakeout = NULL
    /\ customerPayment = 0
    /\ isCheckingOut = FALSE
    /\ selectedProduct = NoProduct
    /\ editingCartItem = NoProduct
    /\ modalQuantity = 1
    /\ pc = "idle"
    /\ co = NoCheckout
    /\ nextTransactionId = 1
    /\ checkoutResult = "none"
    /\ recentSales = << >>
    /\ timers = {}
    /\ showCancelModal = 0
    /\ cpc = "idle"
    /\ cn = NoCancel
    /\ cancelResult = "none"
    /\ peer = NoPeer
    /\ failures = 0

\* what an inventory page action leaves alone
UnchangedBySalesScreen ==
    UNCHANGED << sales, nextSaleId, now, fetchVars, cartVars, selectVars,
                 checkoutVars, notifyVars, cancelVars, peer, cancel2 >>

\* InventoryPage fetchItems delivers
fetchItems ==
    /\ UNCHANGED failures
    /\ inventoryPage.items # inv
    /\ inventoryPage' = [inventoryPage EXCEPT !.items = inv]
    /\ UNCHANGED inv
    /\ UnchangedBySalesScreen

\* InventoryPage openEditModal(item): the form shows the stock in display
\* units; toString and parseFloat give back the same double
openEditModal(id) ==
    /\ UNCHANGED failures
    /\ inventoryPage.editingItem = NoProduct
    /\ inventoryPage.items # << >>
    /\ inventoryPage' =
          [inventoryPage EXCEPT
             !.editingItem = id,
             !.formData = [unit_type |-> UnitType[id],
                           qty |-> getDisplayQuantityDouble(inventoryPage.items[id].qty,
                                                            UnitType[id])]]
    /\ UNCHANGED inv
    /\ UnchangedBySalesScreen

\* InventoryPage closeModal of the form
closeEditModal ==
    /\ UNCHANGED failures
    /\ inventoryPage.editingItem # NoProduct
    /\ ~inventoryPage.isSubmitting
    /\ inventoryPage' = [NoPage EXCEPT !.items = inventoryPage.items]
    /\ UNCHANGED inv
    /\ UnchangedBySalesScreen

\* InventoryPage handleSubmit on the form as openEditModal filled it, up to
\* the update: a quantity that is not positive is refused
handleSubmitForm ==
    /\ UNCHANGED failures
    /\ inventoryPage.editingItem # NoProduct
    /\ ~inventoryPage.isSubmitting
    /\ inventoryPage.formData.qty # ZeroDouble
    /\ inventoryPage' = [inventoryPage EXCEPT !.isSubmitting = TRUE]
    /\ UNCHANGED inv
    /\ UnchangedBySalesScreen

\* the update of handleSubmit returns: on success closeModal and fetchItems,
\* on an error the form stays open
SubmitReturn(updateOk) ==
    /\ RequestOutcome(updateOk)
    /\ inventoryPage.isSubmitting
    /\ LET id == inventoryPage.editingItem
       IN  IF updateOk
           THEN /\ inv' = [inv EXCEPT ![id] =
                             [qty  |-> getStorageQuantityDouble(
                                          inventoryPage.formData.qty,
                                          inventoryPage.formData.unit_type),
                              cost |-> 0]]
                /\ inventoryPage' = [NoPage EXCEPT !.items = inventoryPage.items]
           ELSE /\ UNCHANGED inv
                /\ inventoryPage' = [inventoryPage EXCEPT !.isSubmitting = FALSE]
    /\ UnchangedBySalesScreen

NextRound ==
    \/ fetchItems
    \/ \E id \in Items : openEditModal(id)
    \/ closeEditModal
    \/ handleSubmitForm
    \/ \E updateOk \in BOOLEAN : SubmitReturn(updateOk)

SpecRound == InitRound /\ [][NextRound]_vars

\* ------------------------------------------------------------------------
\* A second cancelSale call: the confirm button of the modal stays active
\* while a call is running, and setShowCancelModal(null) comes after the await
\* ------------------------------------------------------------------------
\* the end of the second call and of its handleConfirmCancel
SecondReturn(result) ==
    /\ cancel2' = [NoSecond EXCEPT !.result = result]
    /\ showCancelModal' = 0

\* "Cancel Sale" pressed again while a cancelSale call is running: a second
\* call starts on the list of the latest render, up to its first await
handleConfirmCancelAgain ==
    /\ UNCHANGED << failures, peer, inventoryPage >>
    /\ showCancelModal # 0
    /\ cpc # "idle"
    /\ cancel2 = NoSecond
    /\ LET found == FindRecentSale(recentSales, showCancelModal)
       IN  IF found = << >>
           THEN /\ SecondReturn("false")
                /\ UNCHANGED recentSales
           ELSE IF now > Head(found).expiresAt
           THEN /\ recentSales' = WithoutSale(recentSales, showCancelModal)
                /\ SecondReturn("false")
           ELSE /\ cancel2' = [pc     |-> "mark",
                               cn     |-> [saleId      |-> showCancelModal,
                                           product_id  |-> Head(found).sale.product_id,
                                           qty         |-> Head(found).sale.qty,
                                           cancelledAt |-> ToString(now)],
                               result |-> "none"]
                /\ UNCHANGED << recentSales, showCancelModal >>
    /\ UNCHANGED << dbVars, now, fetchVars, cartVars, selectVars,
                    checkoutVars, timers, cpc, cn, cancelResult >>

\* the update of the second call that marks the Sale row cancelled returns
SecondMark(updateOk) ==
    /\ RequestOutcome(updateOk)
    /\ UNCHANGED << peer, inventoryPage >>
    /\ cancel2.pc = "mark"
    /\ IF updateOk
       THEN /\ sales' = MarkCancelled(sales, cancel2.cn.saleId, cancel2.cn.cancelledAt)
            /\ cancel2' = [cancel2 EXCEPT !.pc = "restore"]
            /\ UNCHANGED showCancelModal
       ELSE /\ SecondReturn("false")
            /\ UNCHANGED sales
    /\ UNCHANGED << inv, nextSaleId, now, fetchVars, cartVars, selectVars,
                    checkoutVars, notifyVars, cpc, cn, cancelResult >>

\* the call of restore_inventory of the second call returns
SecondRestore(rpcOk) ==
    /\ UNCHANGED << failures, peer, inventoryPage >>
    /\ cancel2.pc = "restore"
    /\ IF rpcOk
       THEN /\ inv' = restore_inventory(inv, cancel2.cn.product_id, cancel2.cn.qty)
            /\ recentSales' = WithoutSale(recentSales, cancel2.cn.saleId)
            /\ SecondReturn("true")
       ELSE /\ cancel2' = [cancel2 EXCEPT !.pc = "fallback"]
            /\ UNCHANGED << inv, recentSales, showCancelModal >>
    /\ UNCHANGED << sales, nextSaleId, now, fetchVars, cartVars, selectVars,
                    checkoutVars, timers, cpc, cn, cancelResult >>

\* the fallback's select and update of the second call return
SecondFallback ==
    /\ UNCHANGED << failures, peer, inventoryPage >>
    /\ cancel2.pc = "fallback"
    /\ inv' = FallbackRestore(inv, cancel2.cn.product_id, cancel2.cn.qty)
    /\ recentSales' = WithoutSale(recentSales, cancel2.cn.saleId)
    /\ SecondReturn("true")
    /\ UNCHANGED << sales, nextSaleId, now, fetchVars, cartVars, selectVars,
                    checkoutVars, timers, cpc, cn, cancelResult >>

\* The cancellation window with a cashier who may press "Cancel Sale" a
\* second time while the first call is running
NextTwice ==
    \/ NextCancel
    \/ handleConfirmCancelAgain
    \/ \E updateOk \in BOOLEAN : SecondMark(updateOk)
    \/ \E rpcOk \in BOOLEAN : SecondRestore(rpcOk)
    \/ SecondFallback

SpecTwice == Init /\ [][NextTwice]_vars

\* SpecWindow with the event loop running every timer callback that is due
SpecExpiry == SpecWindow /\ WF_vars(\E t \in timers : TimerFire(t))

\* NextWindow with a consumer of the notification context that calls
\* removeRecentSale
NextProvider ==
    \/ NextWindow
    \/ \E saleId \in 1..nextSaleId : removeRecentSale(saleId)

SpecProvider == InitWindow /\ [][NextProvider]_vars

\* ------------------------------------------------------------------------
\* Properties
\* ------------------------------------------------------------------------
\* what the first n recipe lines of a product take of one raw material
RECURSIVE LinesTake(_, _, _)
LinesTake(product, id, n) ==
    IF n = 0 THEN 0
    ELSE LinesTake(product, id, n - 1)
         + (IF productIngredients[product][n].item_id = id
            THEN productIngredients[product][n].qty ELSE 0)

\* what the first n lines of a cart require of one raw material, in display
\* units: recipe-line quantity times cart-line quantity, summed
RECURSIVE CartRequires(_, _, _)
CartRequires(c, id, n) ==
    IF n = 0 THEN 0
    ELSE CartRequires(c, id, n - 1)
         + c[n].quantity
           * LinesTake(c[n].product, id, Len(productIngredients[c[n].product]))

\* a display quantity of a raw material in its storage unit
InStorageUnit(id, displayQty) ==
    IF UnitType[id] \in {"weight", "volume"} THEN displayQty \div 1000 ELSE displayQty

\* the quantity of a raw material in the rows a checkout works from
SnapshotQty(rows, id) ==
    LET k == CHOOSE j \in 1..Len(rows) : rows[j].id = id IN rows[k].qty

\* the running checkout's Sale rows are in the sales table, one per cart line
RowsWritten ==
    /\ Len(co.cart) > 0
    /\ Cardinality({ r \in sales : r.transaction_id = co.transactionId }) = Len(co.cart)

\* a step of the running checkout's deduction loop
DeductStep == pc = "deduct" /\ co' # co

\* C1: a committing checkout issues exactly one stock update per distinct
\* raw material its cart's recipes name; the update writes the stock the
\* checkout read, less the sum over all cart lines and recipe lines of
\* (recipe-line quantity x cart-line quantity) converted once to the storage
\* unit, and not below 0.
C1_OneUpdatePerItemOfSummedAmount ==
    [][ /\ (pc = "insert" /\ pc' = "deduct") =>
              /\ \A k, j \in 1..Len(co'.todo) :
                    co'.todo[k].item_id = co'.todo[j].item_id => k = j
              /\ { co'.todo[k].item_id : k \in 1..Len(co'.todo) }
                    = { i \in Items : CartRequires(co.cart, i, Len(co.cart)) > 0 }
        /\ DeductStep =>
              LET e == Head(co.todo)
                  required == CartRequires(co.cart, e.item_id, Len(co.cart))
              IN  /\ e.deduction = required
                  /\ failures' = failures =>
                        inv' = [inv EXCEPT ![e.item_id].qty =
                                   Max(0, SnapshotQty(co.inventoryItems, e.item_id)
                                          - InStorageUnit(e.item_id, required))]
                  /\ IF Len(co.todo) > 1
                     THEN pc' = "deduct" /\ co'.todo = Tail(co.todo)
                     ELSE pc' = "idle"
      ]_vars

\* C1 witness: a cart of two products that share rice; the rice update has
\* been applied once with the sum of both requirements (500 g - 300 g)
C1_Witness ==
    /\ pc = "deduct"
    /\ Len(co.cart) = 2
    /\ co.cart[1].quantity = 1
    /\ co.cart[2].quantity = 1
    /\ Len(co.todo) = 2
    /\ failures = 0
    /\ inv["rice"].qty = 200

\* C3: within one checkout the Sale rows are written before the first stock
\* update is issued, every stock update has been issued before the sale is
\* registered with the cancellation window, and the registered sale is a row
\* of the sales table.
C3_RowsThenDeductionsThenRegistration ==
    [][ /\ pc' = "deduct" => RowsWritten'
        /\ DeductStep => RowsWritten
        /\ recentSales' # recentSales =>
              /\ DeductStep
              /\ Len(co.todo) = 1
              /\ Len(recentSales') = 1
              /\ recentSales'[1].sale \in sales
              /\ recentSales'[1].sale.transaction_id = co.transactionId
      ]_vars

\* C3 witness: a checkout has written its rows, applied deductions and
\* registered its first row
C3_Witness ==
    /\ checkoutResult = "completed"
    /\ Len(recentSales) = 1
    /\ recentSales[1].sale \in sales
    /\ inv["rice"].qty < InitialInventory["rice"].qty
    /\ inv["cup"].qty = 0

\* the restock edits the inventory form can make to the products table
RestockResults ==
    { [inv EXCEPT ![id] = [qty |-> InStorageUnit(id, q), cost |-> (c * 1000) \div q]] :
        id \in Items, q \in UNION { RestockDisplayQty[i] : i \in Items },
        c \in RestockTotalCost }

\* C4: while the cart is empty or the payment method, the customer category
\* or the seating mode is not selected, no step starts a checkout: no
\* transaction id or number is obtained, no Sale row is inserted, nothing is
\* registered for cancellation and the inventory changes by restock edits only.
C4_InvalidCheckoutRejected ==
    [][ ( /\ pc = "idle"
          /\ \/ cart = << >>
             \/ selectedPaymentMethod = ""
             \/ selectedCustomerType = ""
             \/ selectedDineInTakeout = NULL )
        => /\ pc' = "idle"
           /\ co' = co
           /\ nextTransactionId' = nextTransactionId
           /\ sales' = sales
           /\ recentSales' = recentSales
           /\ timers' = timers
           /\ inv' = inv \/ inv' \in RestockResults
      ]_vars

\* C4 witness: the Checkout button can be pressed on a cart whose seating
\* mode alone is missing
C4_Witness ==
    /\ ScreenFree
    /\ Len(cart) > 0
    /\ selectedPaymentMethod # ""
    /\ selectedCustomerType # ""
    /\ selectedDineInTakeout = NULL
    /\ customerPayment >= cartTotal(cart)
    /\ sales = {}

C5_CheckoutRevalidatesAvailability ==
    [][ ( /\ pc = "idle"
          /\ \E k \in 1..Len(cart) :
                isProductOutOfStock(cart[k].product, SelectProducts(inv)) )
        => (pc' = "idle" /\ sales' = sales)
      ]_vars

\* C6: when the insert of the Sale rows fails, the checkout ends there: no
\* stock update is issued, no sale is registered for cancellation, and the
\* cart, the payment method, the customer category, the seating mode and the
\* payment amount stay as they were.
C6_InsertFailureAborts ==
    [][ (pc = "insert" /\ failures' # failures) =>
           /\ pc' = "idle"
           /\ checkoutResult' = "failed"
           /\ inv' = inv
           /\ sales' = sales
           /\ recentSales' = recentSales
           /\ timers' = timers
           /\ cart' = cart
           /\ selectVars' = selectVars
      ]_vars

\* C6 witness: a checkout has failed at the insert; the cart and the
\* selections are still there, no row and no registration exist
C6_Witness ==
    /\ checkoutResult = "failed"
    /\ failures = 1
    /\ pc = "idle"
    /\ cart # << >>
    /\ selectedPaymentMethod # ""
    /\ selectedCustomerType # ""
    /\ selectedDineInTakeout # NULL
    /\ sales = {}
    /\ recentSales = << >>
    /\ inv = InitialInventory

\* C7: when one stock update of a checkout fails, the Sale rows and the
\* quantities already written stay, the loop goes on to the remaining items,
\* and the checkout ends by registering its first Sale row with the
\* cancellation window, as it does when no update fails.
C7_DeductionFailureKeepsGoing ==
    [][ /\ (DeductStep /\ failures' # failures) =>
              /\ sales' = sales
              /\ inv' = inv
              /\ Len(co.todo) > 1 =>
                    /\ pc' = "deduct"
                    /\ co'.todo = Tail(co.todo)
                    /\ co'.saleData = co.saleData
        /\ (DeductStep /\ Len(co.todo) = 1) =>
              /\ pc' = "idle"
              /\ checkoutResult' = "completed"
              /\ recentSales' = << [sale |-> co.saleData[1],
                                    expiresAt |-> now + CANCEL_WINDOW_MS] >>
              /\ co.saleData[1] \in sales'
              /\ \E t \in timers' : t.saleId = co.saleData[1].id
      ]_vars

\* C7 witness: the checkout of a cart of two products has completed and is
\* registered; its rice update failed (rice is untouched), the later cup
\* update was applied
C7_Witness ==
    /\ checkoutResult = "completed"
    /\ failures = 1
    /\ Cardinality(sales) = 2
    /\ Len(recentSales) = 1
    /\ recentSales[1].sale \in sales
    /\ inv["rice"] = InitialInventory["rice"]
    /\ inv["cup"].qty = 0
    /\ inv["milk"].qty < InitialInventory["milk"].qty

\* the quantity the Sale rows of the sales table carry for one product
RECURSIVE SoldQty(_, _)
SoldQty(rows, product) ==
    IF rows = {} THEN 0
    ELSE LET r == CHOOSE x \in rows : TRUE
         IN  (IF r.product_id = product THEN r.qty ELSE 0)
             + SoldQty(rows \ {r}, product)

\* what the Sale rows of the sales table required of one raw material, in
\* display units
RECURSIVE SoldRequires(_, _)
SoldRequires(products, id) ==
    IF products = {} THEN 0
    ELSE LET p == CHOOSE x \in products : TRUE
         IN  SoldQty(sales, p) * LinesTake(p, id, Len(productIngredients[p]))
             + SoldRequires(products \ {p}, id)

\* one checkout has completed with every stock update applied and none of
\* them clamped, and no restock edit was made
OneUnclampedCheckout ==
    /\ checkoutResult = "completed"
    /\ pc = "idle"
    /\ failures = 0
    /\ sales # {}
    /\ \A r, q \in sales : r.transaction_id = q.transaction_id
    /\ \A i \in Items :
          /\ inv[i].cost = InitialInventory[i].cost
          /\ InStorageUnit(i, SoldRequires(Products, i)) <= InitialInventory[i].qty

\* C8: after one checkout whose deductions were all applied unclamped, and
\* with no other change of the inventory, a cancel of that transaction that
\* succeeded inside the window has put every raw material back to the
\* quantity it had before the checkout.
C8_CancelRestoresInventory ==
    (OneUnclampedCheckout /\ cpc = "idle" /\ cancelResult = "true")
        => \A i \in Items : inv[i].qty = InitialInventory[i].qty

\* C9: after a cancel that succeeded, every Sale row that carries the
\* transaction id of the cancelled sale has cancelled = true and a
\* cancelled_at that is not null.
C9_CancelMarksEveryRow ==
    (cpc = "idle" /\ cancelResult = "true")
        => \A r, q \in sales :
              (r.cancelled /\ q.transaction_id = r.transaction_id)
                 => (q.cancelled /\ q.cancelled_at # NULL)

\* the entry of the sale the cancel modal asks about has expired: it is past
\* its expiresAt, or its timer has already removed it
PendingEntryExpired ==
    LET found == FindRecentSale(recentSales, showCancelModal)
    IN  \/ found = << >>
        \/ now > Head(found).expiresAt

\* C10: while the entry of the sale the cancel modal asks about has expired,
\* confirming the cancel issues no request and returns false, and the step
\* that closes the modal changes no Sale row and no inventory quantity.
C10_ExpiredCancelFails ==
    [][ (cpc = "idle" /\ showCancelModal # 0 /\ PendingEntryExpired) =>
           /\ cpc' = "idle"
           /\ cn' = cn
           /\ cancelResult' # cancelResult => cancelResult' = "false"
           /\ showCancelModal' # showCancelModal =>
                 /\ showCancelModal' = 0
                 /\ sales' = sales
                 /\ inv' = inv
      ]_vars

\* C10 witness: the cancel of a registered sale was confirmed after its
\* expiresAt and before its timer ran; it returned false, no request failed,
\* and no Sale row is cancelled
C10_Witness ==
    /\ cancelResult = "false"
    /\ showCancelModal = 0
    /\ cpc = "idle"
    /\ now > CANCEL_WINDOW_MS
    /\ timers # {}
    /\ \A t \in timers : t.due < now
    /\ recentSales = << >>
    /\ failures = 0
    /\ sales # {}
    /\ \A r \in sales : ~r.cancelled /\ r.cancelled_at = NULL

\* C11: in every reachable state, whatever registrations, cancels, removals
\* and timer expiries came before, the cancellation window holds at most one
\* pending entry.
C11_AtMostOnePendingEntry == Len(recentSales) <= 1

\* C11 witness: a second sale was registered while the window of the first
\* was still open (its timer is outstanding and not yet due, the sale is not
\* cancelled), and the list holds the second sale only
C11_Witness ==
    /\ Len(recentSales) = 1
    /\ Cardinality(timers) = 2
    /\ \E t \in timers :
          /\ t.saleId # recentSales[1].sale.id
          /\ now <= t.due
    /\ \A r \in sales : ~r.cancelled

\* sale s was registered, its window is still open (its timer is outstanding
\* and not yet due), and a later sale has been registered since
Superseded(s) ==
    \E t \in timers, u \in timers :
        /\ t.saleId = s
        /\ now <= t.due
        /\ u.saleId > s

\* C12: once a second sale has been registered before the window of the first
\* expired, a cancel of the first sale's id that is confirmed later starts no
\* request, returns false and changes no Sale row and no inventory quantity,
\* although the first sale's expiry time has not passed; a cancel of the
\* second sale confirmed within its window proceeds to mark that sale.
C12_SupersededSaleNotCancellable ==
    [][ /\ \A s \in 1..nextSaleId :
              (cpc = "idle" /\ Superseded(s)) =>
                 /\ cn'.saleId # s
                 /\ showCancelModal = s =>
                       /\ cpc' = "idle"
                       /\ cancelResult' # cancelResult => cancelResult' = "false"
                       /\ showCancelModal' # showCancelModal =>
                             /\ showCancelModal' = 0
                             /\ sales' = sales
                             /\ inv' = inv
        /\ ( /\ cpc = "idle"
             /\ Len(recentSales) = 1
             /\ showCancelModal = recentSales[1].sale.id
             /\ now <= recentSales[1].expiresAt
             /\ \E s \in 1..nextSaleId : Superseded(s) )
           => /\ cancelResult' # cancelResult => cancelResult' # "false"
              /\ cpc' # cpc =>
                    /\ cpc' = "mark"
                    /\ cn'.saleId = showCancelModal
                    /\ cn'.product_id = recentSales[1].sale.product_id
      ]_vars

\* C12 witness: the cancel of a superseded sale was confirmed while its window
\* was still open and returned false; the second sale is still pending, no
\* request failed and no Sale row is cancelled
C12_Witness ==
    /\ cancelResult = "false"
    /\ showCancelModal = 0
    /\ cpc = "idle"
    /\ \E s \in 1..nextSaleId : Superseded(s)
    /\ Len(recentSales) = 1
    /\ now <= recentSales[1].expiresAt
    /\ failures = 0
    /\ \A r \in sales : ~r.cancelled

\* the setTimeout callback of timer t runs in this step
TimerFires(t) == t \in timers /\ t \notin timers'

\* C13: the expiry timer of a pending entry does not fire once the user has
\* cancelled the sale, and does not fire once a newer registration has taken
\* the entry's place: whenever a timer fires, the Sale row of its sale is not
\* cancelled and the list holds no entry of a later sale.
C13_TimerAbortedOnCancelOrSupersession ==
    [][ \A t \in timers :
           TimerFires(t) =>
              /\ \A r \in sales : r.id = t.saleId => ~r.cancelled
              /\ \A k \in 1..Len(recentSales) : recentSales[k].sale.id <= t.saleId
      ]_vars

\* the ids of the Sale rows a session of SpecWindow can write
WindowSaleIds == 1..(MaxCheckouts + 1)

\* the entry of sale s is pending after its window has elapsed, and no
\* cancel is running
EntryOverdue(s) ==
    /\ cpc = "idle"
    /\ \E k \in 1..Len(recentSales) :
          /\ recentSales[k].sale.id = s
          /\ now > recentSales[k].expiresAt

\* the entry of sale s is gone and the sale is final
EntryDroppedSaleFinal(s) ==
    /\ FindRecentSale(recentSales, s) = << >>
    /\ \A r \in sales : r.id = s => ~r.cancelled /\ r.cancelled_at = NULL

\* C14: an entry that is still pending when its window has elapsed, with no
\* cancel performed, is eventually removed from the list while its Sale row
\* keeps cancelled = false; and the expiry itself (the timer callback) changes
\* no Sale row and no inventory quantity.
C14_ExpiryDropsEntrySilently ==
    /\ [][ \A t \in timers : TimerFires(t) => sales' = sales /\ inv' = inv ]_vars
    /\ \A s \in WindowSaleIds : EntryOverdue(s) ~> EntryDroppedSaleFinal(s)

\* C14 witness: the one sale of the session was registered, nobody tried to
\* cancel it, its window elapsed and its timer ran: the list is empty and the
\* Sale row is not cancelled
C14_Witness ==
    /\ Cardinality(sales) = 1
    /\ \A r \in sales : ~r.cancelled
    /\ recentSales = << >>
    /\ timers = {}
    /\ now > CANCEL_WINDOW_MS
    /\ cancelResult = "none"
    /\ failures = 0
    /\ pc = "idle"

\* the Sale rows this step inserts
InsertedRows == { r \in sales' : r.id \notin { q.id : q \in sales } }

\* the transaction numbers of the sales the program still knows of: the
\* persisted rows and the sale of the pending entry
KnownNumbers ==
    { r.transaction_number : r \in sales }
    \cup { recentSales[k].sale.transaction_number : k \in 1..Len(recentSales) }

\* C15: within one period a checkout never commits rows under a number less
\* than or equal to the number of a sale issued earlier, whatever checkouts,
\* cancellations and archivals came before.
C15_NumbersStrictlyIncrease ==
    [][ \A r \in InsertedRows : \A n \in KnownNumbers :
           n.period = r.transaction_number.period
              => n.seq < r.transaction_number.seq
      ]_vars

\* generateTransactionNumber returns in this step, its read having succeeded
NumberIssued == pc = "number" /\ pc' = "insert" /\ failures' = failures

\* C16: the number generateTransactionNumber returns has the period of the
\* call and, as sequence, one more than the numerically highest sequence
\* among the persisted rows of exactly that period, or 1 when there is no such
\* row; rows of other periods have no influence.
C16_NextIsNumericMaxPlusOne ==
    [][ NumberIssued =>
           LET seqs == { r.transaction_number.seq :
                            r \in { x \in sales :
                                      x.transaction_number.period = yearMonth(now) } }
               issued == co'.transactionNumber
           IN  /\ issued.period = yearMonth(now)
               /\ seqs = {} => issued.seq = 1
               /\ seqs # {} => /\ \A n \in seqs : n < issued.seq
                               /\ issued.seq - 1 \in seqs
      ]_vars

\* both sessions hold a transaction number they have read and not yet
\* inserted, and nothing was committed since the earlier of the two reads: no
\* row of the period carries a number as high as either of them
TwoPendingNumbers ==
    /\ pc = "insert"
    /\ peer.pc = "insert"
    /\ co.transactionNumber.period = peer.co.transactionNumber.period
    /\ \A r \in sales :
          r.transaction_number.period = co.transactionNumber.period =>
             /\ r.transaction_number.seq < co.transactionNumber.seq
             /\ r.transaction_number.seq < peer.co.transactionNumber.seq

C18_RowsImmutableButCancellation ==
    [][ \A r \in sales : \A q \in sales' :
           q.id = r.id =>
              [q EXCEPT !.cancelled = r.cancelled,
                        !.cancelled_at = r.cancelled_at] = r
      ]_vars

\* the stored cost of a raw material in the rows a checkout works from
SnapshotCost(rows, id) ==
    LET k == CHOOSE j \in 1..Len(rows) : rows[j].id = id IN rows[k].cost

\* the cost of the first n recipe lines of a product at the stored costs of
\* rows: stored cost times line quantity, the line quantity taken in storage
\* units (kilogram, liter, piece) or as the recipe gives it (gram,
\* milliliter, piece)
RECURSIVE RecipeCost(_, _, _, _)
RecipeCost(product, rows, n, inStorageUnit) ==
    IF n = 0 THEN 0
    ELSE LET line == productIngredients[product][n]
         IN  RecipeCost(product, rows, n - 1, inStorageUnit)
             + Mul(SnapshotCost(rows, line.item_id),
                   IF inStorageUnit THEN InStorageUnit(line.item_id, line.qty)
                   ELSE line.qty)

getDisplayQuantity(id, qty) ==
    IF UnitType[id] \in {"weight", "volume"} THEN qty * 1000 ELSE qty

\* some recipe line of the product asks for more than the stock of its
\* ingredient, both in display units
SomeLineShort(product, rows) ==
    \E k \in 1..Len(productIngredients[product]) :
        LET line == productIngredients[product][k]
        IN  getDisplayQuantity(line.item_id, SnapshotQty(rows, line.item_id)) < line.qty

WithinOneUlp(a, b) ==
    \/ a = b
    \/ a.e = b.e /\ (a.m = b.m + 1 \/ b.m = a.m + 1)
    \/ a.m = Pow2(MantissaBits) - 1 /\ b.m = Pow2(MantissaBits - 1) /\ b.e = a.e + 1
    \/ b.m = Pow2(MantissaBits) - 1 /\ a.m = Pow2(MantissaBits - 1) /\ a.e = b.e + 1

\* the form that openEditModal filled is saved in this step
FormSaved == inventoryPage.isSubmitting /\ inventoryPage'.editingItem = NoProduct

\* C21 as stated: a storage quantity x taken to display units (openEditModal)
\* and back to storage units (handleSubmit) is x again, for every unit kind.
C21_RoundTripExact ==
    [][ FormSaved =>
           inv'[inventoryPage.editingItem].qty
              = inventoryPage.items[inventoryPage.editingItem].qty
      ]_vars

\* C21 amended: a storage quantity x taken to display units and back to
\* storage units is x again for piece items, and for weight and volume items
\* it is x up to the rounding of the double product and quotient: x or a
\* double next to x.
C21_RoundTripWithinRounding ==
    [][ FormSaved =>
           LET id == inventoryPage.editingItem
               x  == inventoryPage.items[id].qty
           IN  /\ WithinOneUlp(inv'[id].qty, x)
               /\ UnitType[id] = "quantity" => inv'[id].qty = x
      ]_vars

\* C21 witness: the edit form of a weight or volume item was saved as it was
\* opened, and the stored quantity is now the double next to the one the
\* page had fetched
C21_Witness ==
    /\ inventoryPage.editingItem = NoProduct
    /\ inventoryPage.items # << >>
    /\ failures = 0
    /\ \E id \in Items :
          /\ inv[id].qty # inventoryPage.items[id].qty
          /\ WithinOneUlp(inv[id].qty, inventoryPage.items[id].qty)

\* ------------------------------------------------------------------------
\* C22: in every state of the sales screen the cart has at most one line per
\* product and every line's quantity is an integer of at least 1; a product
\* already in the cart never gets a second line.
\* ------------------------------------------------------------------------
C22_OneLinePerProduct ==
    /\ \A j, k \in 1..Len(cart) : cart[j].product = cart[k].product => j = k
    /\ \A k \in 1..Len(cart) : cart[k].quantity \in Nat /\ cart[k].quantity >= 1

\* a cart of two products, one of them with a quantity of 2, the modal closed
C22_Witness ==
    /\ Len(cart) = 2
    /\ \E k \in 1..Len(cart) : cart[k].quantity = 2
    /\ selectedProduct = NoProduct
    /\ editingCartItem = NoProduct

\* ------------------------------------------------------------------------
\* C23: a committed sale can be cancelled for one minute: the entry a
\* registration puts in the window expires 60 seconds after it, and the
\* confirmed cancel of a pending entry up to 60 seconds after its registration
\* is accepted (it goes on to mark the Sale row).
\* ------------------------------------------------------------------------
\* README: "New purchase alerts with 1-minute cancel window"
OneMinuteMs == 60000

\* the time addRecentSale ran for an entry: expiresAt = Date.now() + CANCEL_WINDOW_MS
registeredAt(entry) == entry.expiresAt - CANCEL_WINDOW_MS

\* the confirmed cancel of the pending entry is refused as expired: cancelSale
\* drops the entry and returns false before any request
CancelRefusedAsExpired ==
    /\ cpc = "idle"
    /\ showCancelModal # 0
    /\ FindRecentSale(recentSales, showCancelModal) # << >>
    /\ showCancelModal' = 0
    /\ recentSales' = WithoutSale(recentSales, showCancelModal)

C23_OneMinuteWindow ==
    [][ /\ \A k \in 1..Len(recentSales') :
             recentSales'[k] \notin { recentSales[j] : j \in 1..Len(recentSales) } =>
                recentSales'[k].expiresAt = now + OneMinuteMs
        /\ CancelRefusedAsExpired =>
              now > registeredAt(Head(FindRecentSale(recentSales, showCancelModal)))
                      + OneMinuteMs
      ]_vars

\* ------------------------------------------------------------------------
\* C24: a checkout in which a stock update failed reports it: the result the
\* cashier gets when the checkout ends differs from the result of a checkout
\* whose updates all succeeded (the "Sale completed" outcome).
\* ------------------------------------------------------------------------
C24_FailedDeductionsReported ==
    [][ ( /\ DeductStep
          /\ Len(co.todo) = 1
          /\ (co.failed # {} \/ failures' # failures) )
        => checkoutResult' # "completed"
      ]_vars

\* ------------------------------------------------------------------------
\* C25: a checkout of several products registers one Sale row for
\* cancellation, the first row the insert returned; the cancel's update
\* changes that row only, and the other rows of the transaction keep
\* cancelled = false.
\* ------------------------------------------------------------------------
C25_CancelScopedToFirstRow ==
    /\ [](\A r, q \in sales :
             (r.cancelled /\ q.cancelled /\ q.transaction_id = r.transaction_id)
                => q = r)
    /\ [][ /\ (DeductStep /\ pc' = "idle" /\ Len(co.saleData) > 1) =>
                 /\ Len(recentSales') = 1
                 /\ recentSales'[1].sale = co.saleData[1]
           /\ (cpc = "mark" /\ cpc' = "restore") =>
                 /\ \A r \in sales : r.id # cn.saleId => r \in sales'
                 /\ \A r \in sales' \ sales :
                       /\ r.id = cn.saleId
                       /\ r.cancelled
                       /\ r.cancelled_at = cn.cancelledAt
                 /\ Cardinality(sales') = Cardinality(sales)
         ]_vars

\* C25 witness: the cancel of a two-product sale has succeeded; the row that
\* was registered is cancelled and the other row of the transaction is not
C25_Witness ==
    /\ cpc = "idle"
    /\ cancelResult = "true"
    /\ \E r, q \in sales :
          /\ r # q
          /\ q.transaction_id = r.transaction_id
          /\ r.cancelled
          /\ r.cancelled_at # NULL
          /\ ~q.cancelled
          /\ q.cancelled_at = NULL

\* ------------------------------------------------------------------------
\* C26: no stock deduction is lost: once the checkouts of the two sessions
\* have both committed with every update applied, each raw material holds
\* max(0, initial quantity - what the first took - what the second took).
\* ------------------------------------------------------------------------
C26_NoDeductionLost ==
    ( /\ pc = "idle"
      /\ checkoutResult = "completed"
      /\ peer.pc = "done"
      /\ failures = 0 )
    => \A i \in Items :
          inv[i].qty = Max(0, InitialInventory[i].qty
                                - deductionInStorageUnit(SoldRequires(Products, i),
                                                         UnitType[i]))

\* ------------------------------------------------------------------------
\* C27: a checkout never commits a cart that needs more of a raw material
\* than there is: for every raw material a committed checkout touches, the
\* requirement summed over the cart's lines is at most the item's quantity in
\* display units, so the clamp to 0 discards nothing.
\* ------------------------------------------------------------------------
C27_CommittedCartWithinStock ==
    [][ (pc = "insert" /\ pc' = "deduct") =>
           \A k \in 1..Len(co'.todo) :
              LET e    == co'.todo[k]
                  item == FindItem(co.inventoryItems, e.item_id)
              IN  item # NoItem =>
                     e.deduction <= getInventoryInIngredientUnit(item)
      ]_vars

\* ------------------------------------------------------------------------
\* C28: a sale is cancelled at most once: a cancelSale call started for the
\* pending sale while another call for it is running fails at once, returning
\* false, and no step of it changes the inventory.
\* ------------------------------------------------------------------------
C28_CancelledAtMostOnce ==
    [][ cancel2' # cancel2 =>
           /\ cancel2'.pc = "idle"
           /\ cancel2'.result = "false"
           /\ inv' = inv
      ]_vars

\* the pending entry is of a sale registered after an older sale whose timer
\* has already run
OlderTimerHasFired ==
    /\ Len(recentSales) = 1
    /\ \E r \in sales :
          /\ r.id < recentSales[1].sale.id
          /\ \A t \in timers : t.saleId # r.id

\* ------------------------------------------------------------------------
\* C29: the expiry timer of an older registration never removes a newer
\* pending entry: when a timer fires, every entry of another sale stays in the
\* list as it is; and after the older timer has fired, a cancel of the newer
\* sale confirmed before its own expiry time proceeds to mark that sale.
\* ------------------------------------------------------------------------
C29_OlderTimerSparesNewerEntry ==
    [][ /\ \A t \in timers :
              TimerFires(t) =>
                 \A k \in 1..Len(recentSales) :
                    recentSales[k].sale.id # t.saleId =>
                       FindRecentSale(recentSales', recentSales[k].sale.id)
                          = << recentSales[k] >>
        /\ ( /\ cpc = "idle"
             /\ OlderTimerHasFired
             /\ showCancelModal = recentSales[1].sale.id
             /\ now < recentSales[1].expiresAt )
           => /\ cancelResult' # cancelResult => cancelResult' # "false"
              /\ recentSales' # recentSales => pc = "deduct"
              /\ cpc' # cpc =>
                    /\ cpc' = "mark"
                    /\ cn'.saleId = showCancelModal
      ]_vars

\* C29 witness: the second sale was registered before the timer of the first
\* (registered at time 0) was due; the first timer has run since, the second
\* entry is still pending inside its window, and its cancel has been
\* confirmed and is marking the second sale
C29_Witness ==
    /\ Len(recentSales) = 1
    /\ recentSales[1].sale.id = 2
    /\ registeredAt(recentSales[1]) < CANCEL_WINDOW_MS
    /\ timers # {}
    /\ \A t \in timers : t.saleId = 2
    /\ now < recentSales[1].expiresAt
    /\ now >= CANCEL_WINDOW_MS
    /\ cpc = "mark"
    /\ cn.saleId = 2
    /\ \A r \in sales : ~r.cancelled

====
